---- MODULE Spec2Model ----
(***************************************************************************)
(* Fraud-detection service: ingestion pipeline, case service, event bus,   *)
(* model registry, retrain paths and Retrain Guardian.                     *)
(*                                                                         *)
(* Scheduling model: one asyncio event loop.  A coroutine runs without     *)
(* interruption from one await that really suspends to the next, so each   *)
(* action below is one such slice of a handler.  Every request opens its   *)
(* own SQLite connection (backend/db.py get_db): rows written by execute() *)
(* stay private to the connection until commit(), the first write takes    *)
(* the database write lock, and closing a connection rolls back what it    *)
(* has not committed.                                                      *)
(***************************************************************************)
EXTENDS Integers, Sequences, FiniteSets, TLC

\* ---------------------------------------------------------------- bounds
MaxIngest == 2
MaxLabelReq == 2
MaxClients == 1
QueueMaxsize == 2
MaxManual == 1
MaxGroundTruth == 1
MaxTicks == 2
MaxAuto == 1
MaxMine == 2
MaxPublish == 2

\* ------------------------------------------------------- program constants
REVIEW_THRESHOLD == 50
BLOCK_THRESHOLD == 80
MAX_SUBSCRIBERS == 50
MIN_SAMPLES_PER_CLASS == 10
DEBOUNCE_SECONDS == 60
GUARDIAN_MIN_LABELS == 5
GUARDIAN_CHECK_INTERVAL == 30
FAILURE_BACKOFF_THRESHOLD == 3
FAILURE_BACKOFF_SECONDS == 300

IngestIds == 1..MaxIngest
LabelReqIds == 1..MaxLabelReq
ClientIds == 1..MaxClients
\* 0 carries the events that are not about one transaction
EventIds == 0..MaxIngest
TaskIds == ({"ar"} \X LabelReqIds) \cup ({"mr"} \X (1..MaxManual))
              \cup ({"gt"} \X (1..MaxGroundTruth))

\* Scores are in hundredths; the scorer's output is an input of the model.
ScoreValues == {30, 50, 80}
LabelDecisions == {"fraud", "not_fraud", "needs_info"}
TerminalDecisions == {"fraud", "not_fraud"}
\* is_fraud_ground_truth of an ingested transaction
GroundTruthInputs == {"null"}

VARIABLES
    dbTxn,       \* committed rows of table transactions (txn ids)
    dbRisk,      \* committed rows of table risk_results
    dbCase,      \* committed rows of table cases
    dbLabel,     \* committed rows of table analyst_labels
    writer,      \* connection holding the SQLite write lock
    pending,     \* uncommitted writes of that connection
    ing,         \* create_transaction requests
    exp,         \* _auto_explain_case tasks, one per ingestion
    lab,         \* label_case requests
    rt,          \* retrain tasks: _maybe_auto_retrain (one per label request),
                 \* retrain_model and retrain_from_ground_truth requests
    clock,       \* datetime.utcnow(), as the number of snapshots written so far
    dbSnap,      \* committed rows of table metric_snapshots
    dbDecision,  \* committed rows of table agent_decisions, oldest first
    files,       \* MODEL_DIR: the files, each a name (kind, version, suffix) and a content
    everWritten, \* history: every artifact train_model has written
    trainCount,  \* number of completed train_model runs that saved a model
    mlCache,     \* _get_ml_model._cache and _get_ml_model._version
    retrainHolder,  \* task inside "async with _retrain_lock"
    retrainWaiters, \* tasks blocked in _retrain_lock.acquire(), oldest first
    now,         \* time.time() in seconds
    lastRetrainTime, \* _last_retrain_time
    guardian,    \* the run_guardian_loop task
    published,   \* history: per transaction / case, the events published for it
    subscribers, \* _event_subscribers
    queue,       \* the asyncio.Queue of each client
    accepted,    \* history: per client, the events its queue has accepted
    stream,      \* per client: where its generate() stands, and the history of
                 \* the events published while it was registered and of those
                 \* it has yielded
    call,        \* a call of a pure function: its name, arguments and result
    dbPattern,   \* committed rows of table pattern_cards
    mine         \* executions of run_mining_job_async (periodic and POST /mine-patterns)

dbVars == <<dbTxn, dbRisk, dbCase, dbLabel, dbSnap, dbDecision>>
sqlVars == <<writer, pending>>
caseReqVars == <<ing, exp, lab>>
busVars == <<published, subscribers, queue, accepted, stream>>
regVars == <<files, everWritten, trainCount, mlCache>>
lockVars == <<retrainHolder, retrainWaiters>>
timeVars == <<now, lastRetrainTime>>
minerVars == <<dbPattern, mine>>
ctlVars == <<regVars, lockVars, timeVars, guardian>>
vars == <<dbTxn, dbRisk, dbCase, dbLabel, dbSnap, dbDecision, writer, pending,
          ing, exp, lab, rt, clock, published, subscribers, queue, accepted, stream,
          files, everWritten, trainCount, mlCache, retrainHolder, retrainWaiters,
          now, lastRetrainTime, guardian, call, dbPattern, mine>>

\* Python's None where a number is expected
None == 0 - 1

\* no pure function is being called
NoCall == [fn |-> "-"]

\* the executions of the mining job, none of them started
MineIds == 1..MaxMine
MineIdle == [pc |-> "idle", kind |-> "-", after |-> {}, patterns |-> <<>>, todo |-> <<>>,
             pending |-> {}, inserted |-> {}]
NoMining == dbPattern = {} /\ mine = [r \in MineIds |-> MineIdle]

\* ----------------------------------------------------------------- SQLite
NoWriter == <<"none", 0>>

EmptyPending ==
    [txn |-> {}, risk |-> {}, case |-> {}, label |-> {}, status |-> {}, expl |-> {},
     snap |-> {}, decision |-> <<>>]

\* UPDATE cases SET status = ?, ... WHERE case_id = ?  /  SET explanation = ?
ApplyCaseUpdates(rows, p) ==
    { [r EXCEPT !.status = IF \E u \in p.status : u[1] = r.case_id
                           THEN (CHOOSE u \in p.status : u[1] = r.case_id)[2]
                           ELSE r.status,
                !.explained = r.explained \/ r.case_id \in p.expl] : r \in rows }

\* db.commit(): the connection's writes become visible, the lock is released
CommitPending ==
    /\ dbTxn' = dbTxn \cup pending.txn
    /\ dbRisk' = dbRisk \cup pending.risk
    /\ dbCase' = ApplyCaseUpdates(dbCase \cup pending.case, pending)
    /\ dbLabel' = dbLabel \cup pending.label
    /\ dbSnap' = dbSnap \cup pending.snap
    /\ dbDecision' = dbDecision \o pending.decision
    /\ pending' = EmptyPending
    /\ writer' = NoWriter

\* db.close() without commit: the connection's writes are rolled back
RollbackPending(conn) ==
    /\ UNCHANGED dbVars
    /\ IF writer = conn
       THEN pending' = EmptyPending /\ writer' = NoWriter
       ELSE UNCHANGED <<pending, writer>>

\* first write of a connection: takes the write lock if it is free
AcquireWrite(conn) ==
    /\ writer \in {NoWriter, conn}
    /\ writer' = conn

\* ------------------------------------------------------------- event bus
Event(type, id) == [type |-> type, id |-> id]

\* history: the events of one transaction / case, in order
Log(h, e) == [h EXCEPT ![e.id] = Append(@, e.type)]

RECURSIVE LogAll(_, _)
LogAll(h, es) == IF es = <<>> THEN h ELSE LogAll(Log(h, Head(es)), Tail(es))

InSeq(s, x) == \E n \in 1..Len(s) : s[n] = x

\* asyncio.Queue.put_nowait raises QueueFull when qsize() >= maxsize
HasRoomOffByOne(q, maxsize) == Len(q) <= maxsize

HasRoom(q, maxsize) == Len(q) < maxsize

\* for queue in _event_subscribers: put_nowait, dropping on QueueFull; every
\* subscriber has a queue of its own, so the loop is a map over the queues.
\* The result has the queues (q) and the history of accepted events (a).
PutAllMax(qa, subs, e, maxsize) ==
    LET got == {k \in DOMAIN qa.q : InSeq(subs, k) /\ HasRoom(qa.q[k], maxsize)}
    IN [q |-> [k \in DOMAIN qa.q |->
                 IF k \in got THEN Append(qa.q[k], e) ELSE qa.q[k]],
        a |-> [k \in DOMAIN qa.a |->
                 IF k \in got THEN Log(qa.a[k], e) ELSE qa.a[k]]]

\* _publish_event with the queues of the model's clients
PutAll(qa, subs, e) == PutAllMax(qa, subs, e, QueueMaxsize)

RECURSIVE PutEvents(_, _, _)
PutEvents(qa, subs, es) ==
    IF es = <<>> THEN qa
    ELSE PutEvents(PutAll(qa, subs, Head(es)), subs, Tail(es))

\* a client without a request
NoStream == [pc |-> "-", offered |-> <<>>, delivered |-> <<>>]

\* history: the events es were published while subs were registered
Offer(st, subs, es) ==
    [k \in DOMAIN st |->
        IF InSeq(subs, k) THEN [st[k] EXCEPT !.offered = @ \o es] ELSE st[k]]

\* consecutive _publish_event calls of one slice of a handler
PublishEvents(es) ==
    LET qa == PutEvents([q |-> queue, a |-> accepted], subscribers, es)
    IN /\ published' = LogAll(published, es)
       /\ queue' = qa.q
       /\ accepted' = qa.a
       /\ stream' = Offer(stream, subscribers, es)
       /\ UNCHANGED subscribers

RECURSIVE RemoveFirst(_, _)
\* list.remove(x)
RemoveFirst(s, x) ==
    IF s = <<>> THEN <<>>
    ELSE IF Head(s) = x THEN Tail(s)
    ELSE <<Head(s)>> \o RemoveFirst(Tail(s), x)

\* if len(_event_subscribers) >= MAX_SUBSCRIBERS: raise HTTPException(503)
CapReachedAboveMax(n) == n > MAX_SUBSCRIBERS

CapReached(n) == n >= MAX_SUBSCRIBERS

\* stream_events and the first step of generate(): register a queue unless
\* the cap is reached, and yield the 'connected' message
Subscribe(k) ==
    /\ ~InSeq(subscribers, k)
    /\ stream[k].pc = "-"
    /\ queue[k] = <<>>
    /\ ~CapReached(Len(subscribers))
    /\ subscribers' = Append(subscribers, k)
    /\ stream' = [stream EXCEPT ![k].pc = "streaming"]
    /\ UNCHANGED <<published, queue, accepted>>
    /\ UNCHANGED <<dbVars, sqlVars, caseReqVars, rt, clock, ctlVars>>
    /\ UNCHANGED <<call, minerVars>>

\* generate(): event = await queue.get(); yield it
ConsumeNewestFirst(k) ==
    /\ InSeq(subscribers, k)
    /\ stream[k].pc = "streaming"
    /\ queue[k] # <<>>
    /\ queue' = [queue EXCEPT ![k] = SubSeq(@, 1, Len(@) - 1)]
    /\ stream' = [stream EXCEPT ![k].delivered = Append(@, queue[k][Len(queue[k])])]
    /\ UNCHANGED <<published, subscribers, accepted>>
    /\ UNCHANGED <<dbVars, sqlVars, caseReqVars, rt, clock, ctlVars>>
    /\ UNCHANGED <<call, minerVars>>

Consume(k) ==
    /\ InSeq(subscribers, k)
    /\ stream[k].pc = "streaming"
    /\ queue[k] # <<>>
    /\ queue' = [queue EXCEPT ![k] = Tail(@)]
    /\ stream' = [stream EXCEPT ![k].delivered = Append(@, Head(queue[k]))]
    /\ UNCHANGED <<published, subscribers, accepted>>
    /\ UNCHANGED <<dbVars, sqlVars, caseReqVars, rt, clock, ctlVars>>
    /\ UNCHANGED <<call, minerVars>>

\* generate(): the client went away; finally: _event_subscribers.remove(queue).
\* The queue object is dropped with the request: slot k is free for a new client.
Unsubscribe(k) ==
    /\ InSeq(subscribers, k)
    /\ stream[k].pc = "streaming"
    /\ subscribers' = RemoveFirst(subscribers, k)
    /\ stream' = [stream EXCEPT ![k] = NoStream]
    /\ queue' = [queue EXCEPT ![k] = <<>>]
    /\ accepted' = [accepted EXCEPT ![k] = [i \in EventIds |-> <<>>]]
    /\ UNCHANGED published
    /\ UNCHANGED <<dbVars, sqlVars, caseReqVars, rt, clock, ctlVars>>
    /\ UNCHANGED <<call, minerVars>>

\* ---------------------------------------------------------------- scorer
\* score_transaction: decision from the thresholds
Decision(score) ==
    IF score >= BLOCK_THRESHOLD THEN "block"
    ELSE IF score >= REVIEW_THRESHOLD THEN "review"
    ELSE "approve"

\* create_transaction: flagged = risk_result.decision != "approve"
Flagged(score) == Decision(score) # "approve"


\* get_model_version() = "missing"
Missing == <<>>

\* MODEL_DIR.glob("model_v*.joblib")
ActiveModels(fs) == {f \in fs : f.kind = "model" /\ ~f.rolled}

\* the decimal digits of n as characters, "0" < "1" < ... < "9"
RECURSIVE Digits(_)
Digits(n) == IF n < 10 THEN <<n + 1>> ELSE Append(Digits(n \div 10), (n % 10) + 1)

\* "X.Y.Z" as characters, "." sorting before the digits
VersionString(v) == Digits(v[1]) \o <<0>> \o Digits(v[2]) \o <<0>> \o Digits(v[3])

RECURSIVE StringLess(_, _)
\* str < str
StringLess(x, y) ==
    IF y = <<>> THEN FALSE
    ELSE IF x = <<>> THEN TRUE
    ELSE IF Head(x) # Head(y) THEN Head(x) < Head(y)
    ELSE StringLess(Tail(x), Tail(y))

\* a sort of the file names as strings
VersionLessAsString(a, b) == StringLess(VersionString(a), VersionString(b))

\* _version_sort_key: numeric (X, Y, Z) order
VersionLess(a, b) ==
    \/ a[1] < b[1]
    \/ a[1] = b[1] /\ a[2] < b[2]
    \/ a[1] = b[1] /\ a[2] = b[2] /\ a[3] < b[3]

\* get_latest_model_path / get_model_version
GetModelVersion(fs) ==
    IF ActiveModels(fs) = {} THEN Missing
    ELSE (CHOOSE f \in ActiveModels(fs) :
             \A g \in ActiveModels(fs) : ~VersionLess(f.ver, g.ver)).ver

\* load_model(): the content of the latest model file, None without one
NoModel == [none |-> TRUE]
LoadModel(fs) ==
    IF ActiveModels(fs) = {} THEN NoModel
    ELSE (CHOOSE f \in ActiveModels(fs) :
             \A g \in ActiveModels(fs) : ~VersionLess(f.ver, g.ver)).content

RulesVersion == <<"v0.0.0-rules">>
\* reload_model(): the attributes _cache and _version are deleted
Unloaded == [set |-> FALSE, model |-> NoModel, version |-> RulesVersion]

\* _get_ml_model: every call loads the latest model; the attributes keep
\* their values when there is no model file
GetMlModel(fs, cache) ==
    IF LoadModel(fs) # NoModel
    THEN [set |-> TRUE, model |-> LoadModel(fs), version |-> GetModelVersion(fs)]
    ELSE [cache EXCEPT !.set = TRUE]

\* score_transaction: the version it reports
ReportedVersion(cache) == IF cache.model = NoModel THEN RulesVersion ELSE cache.version

\* ------------------------------------------------- create_transaction
IngConn(i) == <<"ing", i>>
ExpConn(i) == <<"exp", i>>
LabConn(j) == <<"lab", j>>

\* -------------------------------------------------------- TransactionIn
\* a request body: txn_type as its text and length, amount as the kind of
\* number the JSON body holds and, when finite, its value
TxnType(name, len) == [name |-> name, len |-> len]
Amount(kind, value) == [kind |-> kind, value |-> value]
TransferOf100 == [txn_type |-> TxnType("transfer", 8), amount |-> Amount("finite", 100)]

\* the field constraints and reject_special_floats: txn_type is any string
\* of at most 64 characters, amount is finite with 0 <= amount <= 10^9
ValidTransactionIn(txn) ==
    /\ txn.txn_type.len <= 64
    /\ txn.amount.kind = "finite"
    /\ txn.amount.value >= 0
    /\ txn.amount.value <= 1000000000

\* the body fails validation: FastAPI answers 422 before create_transaction runs
IngestReject(i) ==
    /\ ing[i].pc = "idle"
    /\ ~ValidTransactionIn(ing[i].txn)
    /\ ing' = [ing EXCEPT ![i].pc = "rejected"]
    /\ UNCHANGED <<dbVars, sqlVars, exp, lab, rt, clock, busVars, ctlVars>>
    /\ UNCHANGED <<call, minerVars>>

\* the create_transaction requests all carry the same sender_id; the seeded
\* rows are from other senders
SenderOf(txn_id) == IF txn_id \in IngestIds THEN "S" ELSE "other"

\* _compute_velocity_features, query 1: COUNT of the committed rows of the
\* sender with timestamp >= datetime(now, '-1 hour'); every row of the model
\* is written on the UTC date of the read and within the hour before it
SenderTxnCount1h(sender_id) ==
    Cardinality({t \in dbTxn : SenderOf(t.txn_id) = sender_id})

\* velocity and pattern reads, then score_transaction succeeds with score s
IngestScore(i, s, g) ==
    /\ ing[i].pc = "idle"
    /\ ValidTransactionIn(ing[i].txn)
    /\ ing' = [ing EXCEPT ![i] = [pc |-> "scored", score |-> s, gt |-> g,
                                  timestamp |-> clock, at |-> "-",
                                  count_1h |-> SenderTxnCount1h(SenderOf(i)),
                                  txn |-> ing[i].txn]]
    /\ mlCache' = GetMlModel(files, mlCache)
    /\ UNCHANGED <<files, everWritten, trainCount, lockVars, timeVars, guardian>>
    /\ UNCHANGED <<dbVars, sqlVars, exp, lab, rt, clock, busVars>>
    /\ UNCHANGED <<call, minerVars>>

\* a read fails, or score_transaction raises (RuntimeError -> 503)
IngestScoreFail(i) ==
    /\ ing[i].pc = "idle"
    /\ ValidTransactionIn(ing[i].txn)
    /\ ing' = [ing EXCEPT ![i].pc = "failed", ![i].at = "idle"]
    /\ UNCHANGED <<dbVars, sqlVars, exp, lab, rt, clock, busVars, ctlVars>>
    /\ UNCHANGED <<call, minerVars>>

\* 1. INSERT INTO transactions
IngestInsertTxn(i) ==
    /\ ing[i].pc = "scored"
    /\ AcquireWrite(IngConn(i))
    /\ pending' = [pending EXCEPT !.txn = @ \cup
                      {[txn_id |-> i, timestamp |-> ing[i].timestamp, gt |-> ing[i].gt]}]
    /\ ing' = [ing EXCEPT ![i].pc = "txn_ins"]
    /\ UNCHANGED <<dbVars, exp, lab, rt, clock, busVars, ctlVars>>
    /\ UNCHANGED <<call, minerVars>>

\* 2. INSERT INTO risk_results
IngestInsertRisk(i) ==
    /\ ing[i].pc = "txn_ins"
    /\ pending' = [pending EXCEPT !.risk = @ \cup
                      {[txn_id |-> i, score |-> ing[i].score,
                        flagged |-> Flagged(ing[i].score)]}]
    /\ ing' = [ing EXCEPT ![i].pc = "risk_ins"]
    /\ UNCHANGED <<dbVars, writer, exp, lab, rt, clock, busVars, ctlVars>>
    /\ UNCHANGED <<call, minerVars>>

\* 3. if flagged: INSERT INTO cases (status 'open')
IngestInsertCase(i) ==
    /\ ing[i].pc = "risk_ins"
    /\ Flagged(ing[i].score)
    /\ pending' = [pending EXCEPT !.case = @ \cup
                      {[case_id |-> i, txn_id |-> i, status |-> "open",
                        explained |-> FALSE]}]
    /\ ing' = [ing EXCEPT ![i].pc = "case_ins"]
    /\ UNCHANGED <<dbVars, writer, exp, lab, rt, clock, busVars, ctlVars>>
    /\ UNCHANGED <<call, minerVars>>

\* create_transaction committing before the case row is inserted
IngestCommitSkipsCase(i) ==
    /\ ing[i].pc = "risk_ins"
    /\ CommitPending
    /\ ing' = [ing EXCEPT ![i].pc = "committed"]
    /\ UNCHANGED <<exp, lab, rt, clock, busVars, ctlVars>>
    /\ UNCHANGED <<call, minerVars>>

\* await db.commit()
IngestCommit(i) ==
    /\ \/ ing[i].pc = "case_ins"
       \/ ing[i].pc = "risk_ins" /\ ~Flagged(ing[i].score)
    /\ CommitPending
    /\ ing' = [ing EXCEPT ![i].pc = "committed"]
    /\ UNCHANGED <<exp, lab, rt, clock, busVars, ctlVars>>
    /\ UNCHANGED <<call, minerVars>>

\* create_transaction publishing case_created before the transaction event
IngestPublishCaseFirst(i) ==
    /\ ing[i].pc = "committed"
    /\ PublishEvents(IF Flagged(ing[i].score)
                     THEN <<Event("case_created", i), Event("transaction", i)>>
                     ELSE <<Event("transaction", i)>>)
    /\ exp' = [exp EXCEPT ![i] = IF Flagged(ing[i].score) THEN "start" ELSE @]
    /\ ing' = [ing EXCEPT ![i].pc = "done"]
    /\ UNCHANGED <<dbVars, sqlVars, lab, rt, clock, ctlVars>>
    /\ UNCHANGED <<call, minerVars>>

\* after the connection is closed: publish, schedule _auto_explain_case, return
IngestPublish(i) ==
    /\ ing[i].pc = "committed"
    /\ PublishEvents(IF Flagged(ing[i].score)
                     THEN <<Event("transaction", i), Event("case_created", i)>>
                     ELSE <<Event("transaction", i)>>)
    /\ exp' = [exp EXCEPT ![i] = IF Flagged(ing[i].score) THEN "start" ELSE @]
    /\ ing' = [ing EXCEPT ![i].pc = "done"]
    /\ UNCHANGED <<dbVars, sqlVars, lab, rt, clock, ctlVars>>
    /\ UNCHANGED <<call, minerVars>>

\* create_transaction on a connection in autocommit mode: what was written
\* before the failure stays
IngestStoreFailKeepsWrites(i) ==
    /\ ing[i].pc \in {"scored", "txn_ins", "risk_ins", "case_ins"}
    /\ IF writer = IngConn(i)
       THEN CommitPending
       ELSE UNCHANGED <<dbVars, sqlVars>>
    /\ ing' = [ing EXCEPT ![i].pc = "failed", ![i].at = ing[i].pc]
    /\ UNCHANGED <<exp, lab, rt, clock, busVars, ctlVars>>
    /\ UNCHANGED <<call, minerVars>>

\* an INSERT or the commit raises: the exception leaves "async with get_db()",
\* the connection is closed and the request answers with an error
IngestStoreFail(i) ==
    /\ ing[i].pc \in {"scored", "txn_ins", "risk_ins", "case_ins"}
    /\ RollbackPending(IngConn(i))
    /\ ing' = [ing EXCEPT ![i].pc = "failed", ![i].at = ing[i].pc]
    /\ UNCHANGED <<exp, lab, rt, clock, busVars, ctlVars>>
    /\ UNCHANGED <<call, minerVars>>

\* ------------------------------------------------- _auto_explain_case
\* pattern read, explain_case in the executor, then UPDATE cases SET explanation
ExplainUpdate(i) ==
    /\ exp[i] = "start"
    /\ AcquireWrite(ExpConn(i))
    /\ pending' = [pending EXCEPT !.expl = @ \cup {i}]
    /\ exp' = [exp EXCEPT ![i] = "updated"]
    /\ UNCHANGED <<dbVars, ing, lab, rt, clock, busVars, ctlVars>>
    /\ UNCHANGED <<call, minerVars>>

ExplainCommit(i) ==
    /\ exp[i] = "updated"
    /\ CommitPending
    /\ exp' = [exp EXCEPT ![i] = "committed"]
    /\ UNCHANGED <<ing, lab, rt, clock, busVars, ctlVars>>
    /\ UNCHANGED <<call, minerVars>>

\* publish case_explained
ExplainPublish(i) ==
    /\ exp[i] = "committed"
    /\ PublishEvents(<<Event("case_explained", i)>>)
    /\ exp' = [exp EXCEPT ![i] = "done"]
    /\ UNCHANGED <<dbVars, sqlVars, ing, lab, rt, clock, ctlVars>>
    /\ UNCHANGED <<call, minerVars>>

\* except Exception: logged, the case stays without explanation
ExplainFail(i) ==
    /\ exp[i] \in {"start", "updated"}
    /\ RollbackPending(ExpConn(i))
    /\ exp' = [exp EXCEPT ![i] = "failed"]
    /\ UNCHANGED <<ing, lab, rt, clock, busVars, ctlVars>>
    /\ UNCHANGED <<call, minerVars>>

\* ----------------------------------------------------------- label_case
CaseRow(c) == CHOOSE r \in dbCase : r.case_id = c
CaseExists(c) == \E r \in dbCase : r.case_id = c

\* new_status = "closed" if decision in ("fraud", "not_fraud") else "in_review"
NewStatus(d) == IF d \in TerminalDecisions THEN "closed" ELSE "in_review"

\* label_case without the "Case already closed" check
LabelRefusalIgnoresClosed(c) ==
    IF ~CaseExists(c) THEN "rejected404" ELSE "checked"

\* the 404 / 400 answers of label_case
LabelRefusal(c) ==
    IF ~CaseExists(c) THEN "rejected404"
    ELSE IF CaseRow(c).status = "closed" THEN "rejected400"
    ELSE "checked"

\* SELECT txn_id, status FROM cases WHERE case_id = ?; refuse a missing or
\* closed case; otherwise label_id, labeled_at and new_status are computed
LabelCheck(j, c, d) ==
    /\ lab[j].pc = "idle"
    /\ lab' = [lab EXCEPT ![j] = [pc |-> LabelRefusal(c), case_id |-> c,
                                  decision |-> d,
                                  txn_id |-> IF CaseExists(c) THEN CaseRow(c).txn_id ELSE 0,
                                  labeled_at |-> clock]]
    /\ UNCHANGED <<dbVars, sqlVars, ing, exp, rt, clock, busVars, ctlVars>>
    /\ UNCHANGED <<call, minerVars>>

\* INSERT INTO analyst_labels
LabelInsert(j) ==
    /\ lab[j].pc = "checked"
    /\ AcquireWrite(LabConn(j))
    /\ pending' = [pending EXCEPT !.label = @ \cup
                      {[label_id |-> j, case_id |-> lab[j].case_id,
                        txn_id |-> lab[j].txn_id, decision |-> lab[j].decision,
                        labeled_at |-> lab[j].labeled_at]}]
    /\ lab' = [lab EXCEPT ![j].pc = "inserted"]
    /\ UNCHANGED <<dbVars, ing, exp, rt, clock, busVars, ctlVars>>
    /\ UNCHANGED <<call, minerVars>>

\* UPDATE cases SET status = ?, updated_at = ?, closed_at = ? WHERE case_id = ?
LabelUpdate(j) ==
    /\ lab[j].pc = "inserted"
    /\ pending' = [pending EXCEPT !.status = @ \cup
                      {<<lab[j].case_id, NewStatus(lab[j].decision)>>}]
    /\ lab' = [lab EXCEPT ![j].pc = "updated"]
    /\ UNCHANGED <<dbVars, writer, ing, exp, rt, clock, busVars, ctlVars>>
    /\ UNCHANGED <<call, minerVars>>

LabelCommit(j) ==
    /\ lab[j].pc = "updated"
    /\ CommitPending
    /\ lab' = [lab EXCEPT ![j].pc = "committed"]
    /\ UNCHANGED <<ing, exp, rt, clock, busVars, ctlVars>>
    /\ UNCHANGED <<call, minerVars>>

\* publish case_labeled; a fraud / not_fraud label schedules _maybe_auto_retrain
LabelPublish(j) ==
    /\ lab[j].pc = "committed"
    /\ PublishEvents(<<Event("case_labeled", lab[j].case_id)>>)
    /\ rt' = [rt EXCEPT ![<<"ar", j>>].pc = IF lab[j].decision \in TerminalDecisions
                                            THEN "start" ELSE @]
    /\ lab' = [lab EXCEPT ![j].pc = "done"]
    /\ UNCHANGED <<dbVars, sqlVars, ing, exp, clock, ctlVars>>
    /\ UNCHANGED <<call, minerVars>>

\* the INSERT, the UPDATE or the commit raises (for instance "database is
\* locked" after the busy timeout): the connection is closed, 500
LabelStoreFail(j) ==
    /\ lab[j].pc \in {"checked", "inserted", "updated"}
    /\ RollbackPending(LabConn(j))
    /\ lab' = [lab EXCEPT ![j].pc = "failed"]
    /\ UNCHANGED <<ing, exp, rt, clock, busVars, ctlVars>>
    /\ UNCHANGED <<call, minerVars>>

\* -------------------------------------------------------- model registry
NoTask == <<"none", 0>>
GuardianTask == <<"guardian", 0>>

\* f1 and precision that train_model measures, in hundredths: for the run
\* that the Guardian evaluates, and for the runs that nobody evaluates
MetricInputs == {[f1 |-> 80, precision |-> 80], [f1 |-> 40, precision |-> 80]}
RequestMetricInputs == {[f1 |-> 80, precision |-> 80]}

\* _bump_version(current, "minor")
BumpVersion(v) == IF Len(v) # 3 THEN <<0, 1, 0>> ELSE <<v[1], v[2] + 1, 0>>

SameName(f, kind, ver, rolled) == f.kind = kind /\ f.ver = ver /\ f.rolled = rolled

\* joblib.dump / open(path, "w"): create the file or replace its content
WriteFile(fs, kind, ver, rolled, content) ==
    {f \in fs : ~SameName(f, kind, ver, rolled)}
        \cup {[kind |-> kind, ver |-> ver, rolled |-> rolled, content |-> content]}

\* train_model: what it saves for run n with metrics m
TrainSave(fs, n, m) ==
    LET v == BumpVersion(GetModelVersion(fs))
        c == [run |-> n, f1 |-> m.f1, precision |-> m.precision]
    IN WriteFile(WriteFile(fs, "model", v, FALSE, c), "metrics", v, FALSE, c)

\* if path.exists(): path.rename(path.with_suffix(<suffix>.rolled_back));
\* Path.rename replaces an existing target (POSIX)
RenameRolledBack(fs, kind, ver) ==
    IF \E f \in fs : SameName(f, kind, ver, FALSE)
    THEN LET f == CHOOSE f \in fs : SameName(f, kind, ver, FALSE)
         IN WriteFile(fs \ {f}, kind, ver, TRUE, f.content)
    ELSE fs

\* a rollback that would rename the model file only
RollbackModelOnlyModelFile(fs, ver) ==
    IF Cardinality(ActiveModels(fs)) <= 1
    THEN [ok |-> FALSE, files |-> fs]
    ELSE [ok |-> TRUE, files |-> RenameRolledBack(fs, "model", ver)]

\* _rollback_model(new_version): the returned flag and the directory afterwards
RollbackModel(fs, ver) ==
    IF Cardinality(ActiveModels(fs)) <= 1
    THEN [ok |-> FALSE, files |-> fs]
    ELSE [ok |-> TRUE,
          files |-> RenameRolledBack(RenameRolledBack(fs, "model", ver), "metrics", ver)]

\* train_model refuses unless both classes have MIN_SAMPLES_PER_CLASS samples;
\* _do_retrain refuses before that when there are too few rows
Trainable(fraud, legit) ==
    /\ fraud + legit >= MIN_SAMPLES_PER_CLASS * 2
    /\ fraud >= MIN_SAMPLES_PER_CLASS
    /\ legit >= MIN_SAMPLES_PER_CLASS

\* the effect of a train_model call that saves a model, and of the
\* reload_model that follows it
TrainEffect(m) ==
    LET v == BumpVersion(GetModelVersion(files))
        c == [run |-> trainCount + 1, f1 |-> m.f1, precision |-> m.precision]
    IN /\ files' = TrainSave(files, trainCount + 1, m)
       /\ trainCount' = trainCount + 1
       /\ everWritten' = everWritten \cup {[kind |-> "model", ver |-> v, content |-> c],
                                           [kind |-> "metrics", ver |-> v, content |-> c]}
       /\ mlCache' = Unloaded

\* ------------------------------------------------------- patterns/miner.py
\* A transaction as the miner reads it; timestamps are minutes.
MinedTxn(id, sender, receiver, amount, minute) ==
    [txn_id |-> id, timestamp |-> minute, gt |-> "null", sender_id |-> sender,
     receiver_id |-> receiver, amount |-> amount]

\* build_transaction_graph: nodes, edges and the weight of an edge set
GraphNodes(txns) == {t.sender_id : t \in txns} \cup {t.receiver_id : t \in txns}
GraphEdges(txns) == {<<t.sender_id, t.receiver_id>> : t \in txns}

RECURSIVE SumAmount(_)
SumAmount(txns) ==
    IF txns = {} THEN 0
    ELSE LET t == CHOOSE t \in txns : TRUE IN t.amount + SumAmount(txns \ {t})

RECURSIVE ReachFrom(_, _)
ReachFrom(edges, nodes) ==
    LET more == nodes \cup {e[2] : e \in {e \in edges : e[1] \in nodes}}
    IN IF more = nodes THEN nodes ELSE ReachFrom(edges, more)

\* nx.strongly_connected_components
StronglyConnectedComponents(txns) ==
    {{b \in ReachFrom(GraphEdges(txns), {a}) : a \in ReachFrom(GraphEdges(txns), {b})} :
        a \in GraphNodes(txns)}

\* G.subgraph(scc): the transactions inside a component, its edges and flow
Inside(txns, scc) == {t \in txns : t.sender_id \in scc /\ t.receiver_id \in scc}
TotalFlow(txns, scc) == SumAmount(Inside(txns, scc))

RECURSIVE Ranked(_, _)
\* list.sort by a key, greatest first
Ranked(S, key) ==
    IF S = {} THEN <<>>
    ELSE LET m == CHOOSE x \in S : \A y \in S : key[y] <= key[x]
         IN <<m>> \o Ranked(S \ {m}, key)

\* list[:n]
Take(s, n) == SubSeq(s, 1, IF Len(s) < n THEN Len(s) ELSE n)

\* a PatternCard before it is stored: member_ids as the set that sorted()
\* lists, confidence in hundredths
Card(rule_type, member_ids, confidence) ==
    [rule_type |-> rule_type, member_ids |-> member_ids, confidence |-> confidence]

MAX_SCC_PATTERN_SIZE == 20

\* detect_rings(G, min_size=3, max_size=20): the five components of 3..20
\* members with the greatest flow. The inputs of the model have components of
\* at most three members, whose representative cycle (or, without one,
\* len(scc)) has length 3.
RingConfidence(cycle_len) ==
    LET c == IF 95 - (cycle_len - 3) * 10 < 95 THEN 95 - (cycle_len - 3) * 10 ELSE 95
    IN IF c > 40 THEN c ELSE 40

DetectRings(txns) ==
    LET sccs == {c \in StronglyConnectedComponents(txns) :
                    Cardinality(c) >= 3 /\ Cardinality(c) <= MAX_SCC_PATTERN_SIZE}
        ranked == Take(Ranked(sccs, [c \in sccs |-> TotalFlow(txns, c)]), 5)
    IN [n \in 1..Len(ranked) |->
           Card("cycle", ranked[n], RingConfidence(Cardinality(ranked[n])))]

\* detect_hubs: nodes whose degree is >= mean + 2 * std of all degrees and
\* >= 2, at most three per direction; np.std(d) = sqrt(n * sum(d^2) - sum(d)^2) / n
RECURSIVE SumOver(_, _)
SumOver(S, f) ==
    IF S = {} THEN 0 ELSE LET x == CHOOSE x \in S : TRUE IN f[x] + SumOver(S \ {x}, f)

Outliers(nodes, degree) ==
    LET n == Cardinality(nodes)
        sum == SumOver(nodes, degree)
        squares == SumOver(nodes, [x \in nodes |-> degree[x] * degree[x]])
    IN IF n < 2 \/ n * squares = sum * sum THEN {}
       ELSE {x \in nodes : /\ n * degree[x] >= sum
                           /\ (n * degree[x] - sum) * (n * degree[x] - sum)
                                 >= 4 * (n * squares - sum * sum)
                           /\ degree[x] >= 2}

Receivers(txns, node) == {t.receiver_id : t \in {t \in txns : t.sender_id = node}}
Senders(txns, node) == {t.sender_id : t \in {t \in txns : t.receiver_id = node}}

\* min(0.4 + score * 5, 0.95) with the normalised HITS score of the node: 1
\* when it is the only sender (receiver) of the graph; other graphs need the
\* power iteration, which is outside the model
HubConfidence(ends, node) == IF ends = {node} THEN 95 ELSE None

\* the HITS scores also order the candidates
DetectHubs(txns) ==
    LET nodes == GraphNodes(txns)
        out == Outliers(nodes, [x \in nodes |-> Cardinality(Receivers(txns, x))])
        in == Outliers(nodes, [x \in nodes |-> Cardinality(Senders(txns, x))])
        outs == Take(Ranked(out, [x \in out |-> 0]), 3)
        ins == Take(Ranked(in, [x \in in |-> 0]), 3)
    IN IF Cardinality(nodes) < 2 THEN <<>>
       ELSE [n \in 1..Len(outs) |->
                Card("hub_out", {outs[n]} \cup Receivers(txns, outs[n]),
                     HubConfidence({t.sender_id : t \in txns}, outs[n]))]
            \o [n \in 1..Len(ins) |->
                Card("hub_in", {ins[n]} \cup Senders(txns, ins[n]),
                     HubConfidence({t.receiver_id : t \in txns}, ins[n]))]

\* detect_velocity_clusters(window_minutes=60, threshold=5)
WINDOW_MINUTES == 60
VELOCITY_THRESHOLD == 5

RECURSIVE SortedTimestamps(_)
\* sorted(txns, key=timestamp) and the parse of each timestamp: the stored
\* timestamps are datetime.utcnow().isoformat() strings, whose order as
\* strings is their order in time
SortedTimestamps(own) ==
    IF own = {} THEN <<>>
    ELSE LET t == CHOOSE t \in own : \A u \in own : t.timestamp <= u.timestamp
         IN <<t.timestamp>> \o SortedTimestamps(own \ {t})

RECURSIVE ShrinkLeftExclusive(_, _, _)
\* a window that would not hold two transactions exactly window_minutes apart
ShrinkLeftExclusive(timestamps, right, left) ==
    IF timestamps[right] - timestamps[left] >= WINDOW_MINUTES
    THEN ShrinkLeftExclusive(timestamps, right, left + 1)
    ELSE left

RECURSIVE ShrinkLeft(_, _, _)
\* while timestamps[right] - timestamps[left] > window_seconds: left += 1
ShrinkLeft(timestamps, right, left) ==
    IF timestamps[right] - timestamps[left] > WINDOW_MINUTES
    THEN ShrinkLeft(timestamps, right, left + 1)
    ELSE left

RECURSIVE SlidingWindow(_, _, _, _)
\* the two-pointer loop: max_count after the iterations right, right + 1, ...
SlidingWindow(timestamps, right, left, max_count) ==
    IF right > Len(timestamps) THEN max_count
    ELSE LET l == ShrinkLeft(timestamps, right, left)
             window_count == right - l + 1
         IN SlidingWindow(timestamps, right + 1, l,
                          IF window_count > max_count THEN window_count ELSE max_count)

\* max_count of a sender; 0 stands for the sender that is skipped for having
\* fewer than threshold transactions
MaxInWindow(txns, sender) ==
    LET own == {t \in txns : t.sender_id = sender}
    IN IF Cardinality(own) < VELOCITY_THRESHOLD THEN 0
       ELSE SlidingWindow(SortedTimestamps(own), 1, 1, 0)

VelocityConfidence(max_count) ==
    IF 30 + max_count * 5 < 85 THEN 30 + max_count * 5 ELSE 85

\* the cards of detect_velocity_clusters with the fields of their
\* detection_rule: sorted by confidence, greatest first, and cut at five
VelocityPatterns(txns) ==
    LET senders == {s \in {t.sender_id : t \in txns} :
                       MaxInWindow(txns, s) >= VELOCITY_THRESHOLD}
        ranked == Take(Ranked(senders,
                              [s \in senders |-> VelocityConfidence(MaxInWindow(txns, s))]), 5)
    IN [n \in 1..Len(ranked) |->
           [sender |-> ranked[n], max_count_in_window |-> MaxInWindow(txns, ranked[n]),
            confidence |-> VelocityConfidence(MaxInWindow(txns, ranked[n]))]]

DetectVelocityClusters(txns) ==
    LET found == VelocityPatterns(txns)
    IN [n \in 1..Len(found) |-> Card("velocity", {found[n].sender}, found[n].confidence)]

\* nx.density of a directed graph: edges / (n * (n - 1)), in hundredths
Density(txns, scc) ==
    (100 * Cardinality(GraphEdges(Inside(txns, scc))))
        \div (Cardinality(scc) * (Cardinality(scc) - 1))

\* detect_dense_subgraphs(min_density=0.5, max_size=20): a component is
\* skipped when density < min_density; the five with the greatest rank score
\* density * log(flow + 1) are returned (the inputs have one component at most)
DetectDenseSubgraphs(txns) ==
    LET sccs == {c \in StronglyConnectedComponents(txns) :
                    /\ Cardinality(c) >= 3 /\ Cardinality(c) <= MAX_SCC_PATTERN_SIZE
                    /\ ~(2 * Cardinality(GraphEdges(Inside(txns, c)))
                           < Cardinality(c) * (Cardinality(c) - 1))}
        ranked == Take(Ranked(sccs, [c \in sccs |-> Density(txns, c)]), 5)
    IN [n \in 1..Len(ranked) |->
           Card("dense_subgraph", ranked[n],
                IF Density(txns, ranked[n]) < 95 THEN Density(txns, ranked[n]) ELSE 95)]

\* mine_patterns
MinePatterns(txns) ==
    IF Cardinality(txns) < 3 THEN <<>>
    ELSE DetectRings(txns) \o DetectHubs(txns) \o DetectVelocityClusters(txns)
            \o DetectDenseSubgraphs(txns)

\* _structural_signature: the hash of the sorted member_ids, and the
\* pattern_id when there are none
StructuralSignature(member_ids, pattern_id) ==
    IF member_ids = {} THEN <<"id", pattern_id>> ELSE <<"members", member_ids>>

\* --------------------------------------------------- run_mining_job_async
MineConn(r) == <<"mine", r>>

\* execution 1 is an iteration of _periodic_mining, the others are
\* POST /mine-patterns requests
MineKind(r) == IF r = 1 THEN "periodic" ELSE "manual"

ActiveCards == {c \in dbPattern : c.status = "active"}

\* the active cycle and dense_subgraph cards with more than
\* MAX_SCC_PATTERN_SIZE members
OversizedCards ==
    {c \in ActiveCards : /\ c.rule_type \in {"cycle", "dense_subgraph"}
                         /\ Cardinality(c.member_ids) > MAX_SCC_PATTERN_SIZE}

\* a dedup that would key every stored row by its own identity
ExistingSignatureByName(row) == <<"name", row.pattern_id>>

\* the signature computed from a stored row (the name of the card stands in
\* when the row has no member_ids)
ExistingSignature(row) ==
    IF row.member_ids = {} THEN <<"name", row.pattern_id>>
    ELSE <<"members", row.member_ids>>

RECURSIVE NewCards(_, _, _, _)
\* the loop over the mined patterns: the rows to insert, given the
\* signatures seen so far
NewCards(r, cards, n, seen) ==
    IF n > Len(cards) THEN <<>>
    ELSE LET sig == StructuralSignature(cards[n].member_ids, <<r, n>>)
         IN IF sig \in seen THEN NewCards(r, cards, n + 1, seen)
            ELSE <<[pattern_id |-> <<r, n>>, status |-> "active",
                    rule_type |-> cards[n].rule_type,
                    member_ids |-> cards[n].member_ids,
                    confidence |-> cards[n].confidence]>>
                 \o NewCards(r, cards, n + 1, seen \cup {sig})

\* the cleanup of oversized cards: the first read of the store, and the
\* DELETE with its commit when there is something to delete
MineStart(r) ==
    /\ mine[r].pc = "idle"
    /\ OversizedCards # {} => writer = NoWriter
    /\ dbPattern' = dbPattern \ OversizedCards
    /\ mine' = [mine EXCEPT ![r] = [@ EXCEPT !.pc = "fetch", !.kind = MineKind(r),
                       !.after = {q \in MineIds : mine[q].pc = "done"}]]
    /\ UNCHANGED <<dbVars, sqlVars, caseReqVars, rt, clock, busVars, ctlVars, call>>

\* SELECT ... FROM transactions WHERE timestamp >= datetime(now, '-24 hours')
\* (every row of the model is inside the window), then mine_patterns
MineFetch(r) ==
    /\ mine[r].pc = "fetch"
    /\ mine' = [mine EXCEPT ![r] = [@ EXCEPT !.pc = "existing",
                                             !.patterns = MinePatterns(dbTxn)]]
    /\ UNCHANGED <<dbVars, sqlVars, caseReqVars, rt, clock, busVars, ctlVars, call,
                   dbPattern>>

\* SELECT name, detection_rule FROM pattern_cards WHERE status = 'active'
MineReadExisting(r) ==
    /\ mine[r].pc = "existing"
    /\ mine' = [mine EXCEPT ![r] = [@ EXCEPT !.pc = "insert",
                       !.todo = NewCards(r, mine[r].patterns, 1,
                                         {ExistingSignature(c) : c \in ActiveCards})]]
    /\ UNCHANGED <<dbVars, sqlVars, caseReqVars, rt, clock, busVars, ctlVars, call,
                   dbPattern>>

\* INSERT INTO pattern_cards for the next pattern whose signature is new
MineInsert(r) ==
    /\ mine[r].pc = "insert"
    /\ mine[r].todo # <<>>
    /\ AcquireWrite(MineConn(r))
    /\ mine' = [mine EXCEPT ![r] = [@ EXCEPT !.pending = @ \cup {Head(mine[r].todo)},
                                             !.todo = Tail(@)]]
    /\ UNCHANGED <<dbVars, pending, caseReqVars, rt, clock, busVars, ctlVars, call,
                   dbPattern>>

\* await db.commit()
MineCommit(r) ==
    /\ mine[r].pc = "insert"
    /\ mine[r].todo = <<>>
    /\ dbPattern' = dbPattern \cup mine[r].pending
    /\ writer' = IF writer = MineConn(r) THEN NoWriter ELSE writer
    /\ mine' = [mine EXCEPT ![r] = [@ EXCEPT !.pc = "committed", !.pending = {},
                                             !.inserted = mine[r].pending]]
    /\ UNCHANGED <<dbVars, pending, caseReqVars, rt, clock, busVars, ctlVars, call>>

\* the caller publishes a pattern event for every mined pattern and returns
MinePublish(r) ==
    /\ mine[r].pc = "committed"
    /\ PublishEvents([n \in 1..Len(mine[r].patterns) |-> Event("pattern", 0)])
    /\ mine' = [mine EXCEPT ![r].pc = "done"]
    /\ UNCHANGED <<dbVars, sqlVars, caseReqVars, rt, clock, ctlVars, call, dbPattern>>

\* a statement raises (the database is locked, the disk is full): the
\* connection is closed without a commit
MineFail(r) ==
    /\ mine[r].pc \in {"fetch", "existing", "insert"}
    /\ writer' = IF writer = MineConn(r) THEN NoWriter ELSE writer
    /\ mine' = [mine EXCEPT ![r] = [@ EXCEPT !.pc = "failed", !.pending = {}, !.todo = <<>>]]
    /\ UNCHANGED <<dbVars, pending, caseReqVars, rt, clock, busVars, ctlVars, call,
                   dbPattern>>

\* ----------------------------------------------------------- retrain lock
\* asyncio.Lock.acquire returns at once only when the lock is free and nobody waits
LockFree == retrainHolder = NoTask /\ retrainWaiters = <<>>

\* "async with _retrain_lock" entered by task p
EnterLock(p) ==
    IF LockFree
    THEN /\ retrainHolder' = p
         /\ UNCHANGED retrainWaiters
    ELSE /\ retrainWaiters' = Append(retrainWaiters, p)
         /\ UNCHANGED retrainHolder

\* leaving "async with _retrain_lock": release() wakes the oldest waiter
ReleaseLock(p) ==
    /\ retrainHolder' = IF retrainHolder = p THEN NoTask ELSE retrainHolder
    /\ UNCHANGED retrainWaiters

FraudLabels == Cardinality({l \in dbLabel : l.decision = "fraud"
                               /\ \E t \in dbTxn : t.txn_id = l.txn_id})
LegitLabels == Cardinality({l \in dbLabel : l.decision = "not_fraud"
                               /\ \E t \in dbTxn : t.txn_id = l.txn_id})

\* ------------------------------------------------- _maybe_auto_retrain
ArTask(j) == <<"ar", j>>

\* debounce, then the two COUNT(*) queries
ArCheck(j) ==
    /\ rt[ArTask(j)].pc = "start"
    /\ IF now - lastRetrainTime < DEBOUNCE_SECONDS
       THEN rt' = [rt EXCEPT ![ArTask(j)].pc = "done"]
       ELSE rt' = [rt EXCEPT ![ArTask(j)] =
                      [@ EXCEPT !.pc = "counted",
                                !.fraud = Cardinality({l \in dbLabel : l.decision = "fraud"}),
                                !.legit = Cardinality({l \in dbLabel : l.decision = "not_fraud"})]]
    /\ UNCHANGED <<dbVars, sqlVars, caseReqVars, clock, busVars, ctlVars>>
    /\ UNCHANGED <<call, minerVars>>

\* if both counts reach MIN_SAMPLES_PER_CLASS: async with _retrain_lock
ArAcquire(j) ==
    /\ rt[ArTask(j)].pc = "counted"
    /\ IF /\ rt[ArTask(j)].fraud >= MIN_SAMPLES_PER_CLASS
          /\ rt[ArTask(j)].legit >= MIN_SAMPLES_PER_CLASS
       THEN /\ EnterLock(ArTask(j))
            /\ rt' = [rt EXCEPT ![ArTask(j)].pc = IF LockFree THEN "rt_read" ELSE "waiting"]
       ELSE /\ rt' = [rt EXCEPT ![ArTask(j)].pc = "done"]
            /\ UNCHANGED lockVars
    /\ UNCHANGED <<dbVars, sqlVars, caseReqVars, clock, busVars, regVars, timeVars, guardian>>
    /\ UNCHANGED <<call, minerVars>>

\* --------------------------------------------------------- retrain_model
MrTask(k) == <<"mr", k>>

\* a retrain_model that would call _do_retrain without taking the lock
MrAcquireNoLock(k) ==
    /\ rt[MrTask(k)].pc = "idle"
    /\ rt' = [rt EXCEPT ![MrTask(k)].pc = "rt_read"]
    /\ UNCHANGED <<dbVars, sqlVars, caseReqVars, clock, busVars, ctlVars>>
    /\ UNCHANGED <<call, minerVars>>

\* async with _retrain_lock: return await _do_retrain(write_snapshot=True)
MrAcquire(k) ==
    /\ rt[MrTask(k)].pc = "idle"
    /\ EnterLock(MrTask(k))
    /\ rt' = [rt EXCEPT ![MrTask(k)].pc = IF LockFree THEN "rt_read" ELSE "waiting"]
    /\ UNCHANGED <<dbVars, sqlVars, caseReqVars, clock, busVars, regVars, timeVars, guardian>>
    /\ UNCHANGED <<call, minerVars>>

\* a waiter is woken once the lock is free and it is the oldest waiter
LockGranted(p) ==
    /\ rt[p].pc = "waiting"
    /\ retrainHolder = NoTask
    /\ retrainWaiters # <<>> /\ Head(retrainWaiters) = p
    /\ retrainHolder' = p
    /\ retrainWaiters' = Tail(retrainWaiters)
    /\ rt' = [rt EXCEPT ![p].pc = "rt_read"]
    /\ UNCHANGED <<dbVars, sqlVars, caseReqVars, clock, busVars, regVars, timeVars, guardian>>
    /\ UNCHANGED <<call, minerVars>>

\* --------------------------------------- _do_retrain(write_snapshot=True)
LockTasks == {p \in TaskIds : p[1] \in {"ar", "mr"}}

\* SELECT ... FROM analyst_labels JOIN transactions ... WHERE decision IN (...)
RtRead(p) ==
    /\ p \in LockTasks
    /\ rt[p].pc = "rt_read"
    /\ rt' = [rt EXCEPT ![p] = [@ EXCEPT !.pc = "rt_train", !.fraud = FraudLabels,
                                         !.legit = LegitLabels, !.started = now]]
    /\ UNCHANGED <<dbVars, sqlVars, caseReqVars, clock, busVars, ctlVars>>
    /\ UNCHANGED <<call, minerVars>>

\* what follows the lock block: _maybe_auto_retrain stores _last_retrain_time
AfterLockBlock(p) ==
    /\ ReleaseLock(p)
    /\ lastRetrainTime' = IF p[1] = "ar" THEN now ELSE lastRetrainTime
    /\ UNCHANGED now

\* the row-count check and train_model; a saved model is followed by
\* reload_model and the snapshot, a refusal returns through the lock block
RtTrain(p, m) ==
    /\ p \in LockTasks
    /\ rt[p].pc = "rt_train"
    /\ IF Trainable(rt[p].fraud, rt[p].legit)
       THEN /\ TrainEffect(m)
            /\ rt' = [rt EXCEPT ![p] = [@ EXCEPT !.pc = "rt_snap",
                                 !.version = BumpVersion(GetModelVersion(files))]]
            /\ UNCHANGED <<lockVars, timeVars>>
       ELSE /\ rt' = [rt EXCEPT ![p].pc = "done"]
            /\ AfterLockBlock(p)
            /\ UNCHANGED regVars
    /\ UNCHANGED <<dbVars, sqlVars, caseReqVars, clock, busVars, guardian>>
    /\ UNCHANGED <<call, minerVars>>

\* INSERT INTO metric_snapshots (timestamp = utcnow())
RtSnapInsert(p) ==
    /\ rt[p].pc = "rt_snap"
    /\ AcquireWrite(p)
    /\ pending' = [pending EXCEPT !.snap = @ \cup
                      {[timestamp |-> clock, wall |-> now, model_version |-> rt[p].version]}]
    /\ clock' = clock + 1
    /\ rt' = [rt EXCEPT ![p].pc = "rt_snap_ins"]
    /\ UNCHANGED <<dbVars, caseReqVars, busVars, ctlVars>>
    /\ UNCHANGED <<call, minerVars>>

RtSnapCommit(p) ==
    /\ rt[p].pc = "rt_snap_ins"
    /\ CommitPending
    /\ rt' = [rt EXCEPT ![p].pc = "rt_publish"]
    /\ UNCHANGED <<caseReqVars, clock, busVars, ctlVars>>
    /\ UNCHANGED <<call, minerVars>>

\* publish the retrain event and return
RtFinish(p) ==
    /\ rt[p].pc = "rt_publish"
    /\ PublishEvents(<<Event("retrain", 0)>>)
    /\ rt' = [rt EXCEPT ![p].pc = "done"]
    /\ IF p \in LockTasks
       THEN AfterLockBlock(p)
       ELSE UNCHANGED <<lockVars, timeVars>>
    /\ UNCHANGED <<dbVars, sqlVars, caseReqVars, clock, regVars, guardian>>
    /\ UNCHANGED <<call, minerVars>>

\* a store operation raises: the connection is closed, the exception leaves
\* the lock block (which releases the lock) and the task or request ends
RtFail(p) ==
    /\ rt[p].pc \in {"rt_read", "rt_snap", "rt_snap_ins"}
    /\ RollbackPending(p)
    /\ ReleaseLock(p)
    /\ rt' = [rt EXCEPT ![p].pc = "failed"]
    /\ UNCHANGED <<caseReqVars, clock, busVars, regVars, timeVars, guardian>>
    /\ UNCHANGED <<call, minerVars>>

\* ---------------------------------------------- retrain_from_ground_truth
GtTask(g) == <<"gt", g>>

\* SELECT ... FROM transactions WHERE is_fraud_ground_truth IS NOT NULL
GtRead(g) ==
    /\ rt[GtTask(g)].pc = "idle"
    /\ rt' = [rt EXCEPT ![GtTask(g)] =
                 [@ EXCEPT !.pc = "gt_train",
                           !.fraud = Cardinality({t \in dbTxn : t.gt = "fraud"}),
                           !.legit = Cardinality({t \in dbTxn : t.gt = "legit"})]]
    /\ UNCHANGED <<dbVars, sqlVars, caseReqVars, clock, busVars, ctlVars>>
    /\ UNCHANGED <<call, minerVars>>

\* the row-count check and train_model, then reload_model and the snapshot
GtTrain(g, m) ==
    /\ rt[GtTask(g)].pc = "gt_train"
    /\ IF Trainable(rt[GtTask(g)].fraud, rt[GtTask(g)].legit)
       THEN /\ TrainEffect(m)
            /\ rt' = [rt EXCEPT ![GtTask(g)] = [@ EXCEPT !.pc = "rt_snap",
                                 !.version = BumpVersion(GetModelVersion(files))]]
       ELSE /\ rt' = [rt EXCEPT ![GtTask(g)].pc = "done"]
            /\ UNCHANGED regVars
    /\ UNCHANGED <<dbVars, sqlVars, caseReqVars, clock, busVars, lockVars, timeVars, guardian>>
    /\ UNCHANGED <<call, minerVars>>

\* ------------------------------------------------------ Retrain Guardian
\* _gather_context; risk scores are in hundredths, so drift = driftNum / driftDen
\* hundredths (fewer than 50 risk results: the older window is empty, 0.5);
\* minutes_since_retrain is a float, kept here in seconds (999.0 minutes
\* without a snapshot)
GatherContext ==
    LET last == IF dbSnap = {} THEN -1
                ELSE CHOOSE t \in {x.timestamp : x \in dbSnap} :
                         \A x \in dbSnap : x.timestamp <= t
        lastWall == IF dbSnap = {} THEN 0
                    ELSE (CHOOSE x \in dbSnap : x.timestamp = last).wall
        n == Cardinality(dbRisk)
        RECURSIVE Sum(_)
        Sum(rs) == IF rs = {} THEN 0
                   ELSE LET r == CHOOSE r \in rs : TRUE IN r.score + Sum(rs \ {r})
        total == Sum(dbRisk)
        ver == GetModelVersion(files)
        mfile == {f \in files : SameName(f, "metrics", ver, FALSE)}
    IN [labels_since |-> Cardinality({l \in dbLabel : l.labeled_at > last}),
        total_labels |-> Cardinality(dbLabel),
        txns_since_retrain |-> Cardinality({t \in dbTxn : t.timestamp > last}),
        driftNum |-> IF n = 0 THEN 0
                     ELSE IF total >= 50 * n THEN total - 50 * n ELSE 50 * n - total,
        driftDen |-> IF n = 0 THEN 1 ELSE n,
        seconds_since_retrain |-> IF dbSnap = {} THEN 999 * 60 ELSE now - lastWall,
        model_version |-> ver,
        current_f1 |-> IF mfile = {} THEN 0 ELSE (CHOOSE f \in mfile : TRUE).content.f1,
        current_precision |-> IF mfile = {} THEN 0
                              ELSE (CHOOSE f \in mfile : TRUE).content.precision]

\* a rule that looks at the new labels before the total
DeterministicDecisionLabelsFirst(ctx) ==
    IF ctx.labels_since >= GUARDIAN_MIN_LABELS THEN "RETRAIN"
    ELSE IF ctx.total_labels < 20 THEN "SKIP"
    ELSE IF ctx.driftNum > 5 * ctx.driftDen /\ ctx.txns_since_retrain > 50 THEN "RETRAIN"
    ELSE IF ctx.txns_since_retrain > 200 /\ ctx.seconds_since_retrain > 5 * 60 THEN "RETRAIN"
    ELSE "SKIP"

\* _deterministic_decision
DeterministicDecision(ctx) ==
    IF ctx.total_labels < 20 THEN "SKIP"
    ELSE IF ctx.labels_since >= GUARDIAN_MIN_LABELS THEN "RETRAIN"
    ELSE IF ctx.driftNum > 5 * ctx.driftDen /\ ctx.txns_since_retrain > 50 THEN "RETRAIN"
    ELSE IF ctx.txns_since_retrain > 200 /\ ctx.seconds_since_retrain > 5 * 60 THEN "RETRAIN"
    ELSE "SKIP"

\* x or 0
OrZero(x) == IF x = None THEN 0 ELSE x

\* old * 0.9 and old * 0.85 are products of IEEE-754 doubles.  For metrics
\* that are whole hundredths, the product is one ulp above the decimal value
\* for these <<old, percent>> (0.8 * 0.9 = 0.7200000000000001) and equal to
\* the double of the decimal value for all others.
FloatProductAbove == {<<10, 90>>, <<20, 90>>, <<40, 90>>, <<80, 90>>}

\* new < old * (percent / 100) as Python evaluates it, metrics in hundredths
FloatLess(new, old, percent) ==
    \/ new * 100 < old * percent
    \/ new * 100 = old * percent /\ <<old, percent>> \in FloatProductAbove

\* _deterministic_eval
DeterministicEval(old_f1, old_prec, new_f1, new_prec) ==
    IF OrZero(old_f1) > 0 /\ FloatLess(OrZero(new_f1), OrZero(old_f1), 90)
    THEN "ROLLBACK"
    ELSE IF OrZero(old_prec) > 0 /\ FloatLess(OrZero(new_prec), OrZero(old_prec), 85)
    THEN "ROLLBACK"
    ELSE "KEEP"

\* A response of the LLM is a sequence of lines; a line has the key it starts
\* with ("DECISION", "REASONING", "CONFIDENCE" or "-" for none of them) and
\* the words after the colon.  No response (None or "") is the empty sequence.
Line(key, words) == [key |-> key, words |-> words]
NoResponse == <<>>

RECURSIVE ParseDecision(_, _, _, _)
\* the loop of _parse_guardian_response / _parse_eval_response over the
\* lines: a DECISION line sets the decision to word if its value contains
\* word, and to the default otherwise
ParseDecision(text, word, default, decision) ==
    IF text = <<>> THEN decision
    ELSE ParseDecision(Tail(text), word, default,
                       IF Head(text).key = "DECISION"
                       THEN (IF InSeq(Head(text).words, word) THEN word ELSE default)
                       ELSE decision)

\* _parse_guardian_response
ParseGuardianResponse(text) == ParseDecision(text, "RETRAIN", "SKIP", "SKIP")
\* _parse_eval_response
ParseEvalResponse(text) == ParseDecision(text, "ROLLBACK", "KEEP", "KEEP")

\* _guardian_tick, step 1: the LLM's answer if there is one, else the rule
TickDecision(ctx, text) ==
    IF text # NoResponse THEN ParseGuardianResponse(text) ELSE DeterministicDecision(ctx)

\* _guardian_tick, step 4
TickEval(old_f1, old_prec, new_f1, new_prec, text) ==
    IF text # NoResponse THEN ParseEvalResponse(text)
    ELSE DeterministicEval(old_f1, old_prec, new_f1, new_prec)

\* what the LLM answers: nothing, a decision, or a text without a DECISION line
LlmDecisions ==
    {NoResponse, <<Line("DECISION", <<"RETRAIN">>)>>, <<Line("DECISION", <<"SKIP">>)>>,
     <<Line("REASONING", <<"RETRAIN">>)>>}
LlmEvals ==
    {NoResponse, <<Line("DECISION", <<"KEEP">>)>>, <<Line("DECISION", <<"ROLLBACK">>)>>,
     <<Line("-", <<"ROLLBACK">>)>>}

\* log_start is history: the number of agent_decisions rows when the tick
\* began; results is history: how each tick ended; interval is the argument
\* of the asyncio.sleep the loop is in (60 s before the first tick)
GuardianIdle ==
    [pc |-> "sleep", ticks |-> 0, failures |-> 0, decision |-> "-", log_start |-> 0,
     interval |-> 60, results |-> <<>>,
     old_version |-> Missing, old_f1 |-> 0, old_precision |-> 0,
     fraud |-> 0, legit |-> 0,
     new_version |-> Missing, eval |-> "-", rolled_back |-> FALSE]

\* run_guardian_loop: the interval of the sleep after a tick
SleepInterval(failures) ==
    IF failures >= FAILURE_BACKOFF_THRESHOLD THEN FAILURE_BACKOFF_SECONDS
    ELSE GUARDIAN_CHECK_INTERVAL

\* a loop that never resets its failure counter
TickDoneKeepsFailures(g) ==
    [g EXCEPT !.pc = "sleep", !.interval = SleepInterval(g.failures),
              !.results = Append(@, "ok")]

\* the tick ends: _consecutive_failures = 0, then sleep
TickDone(g) ==
    [g EXCEPT !.pc = "sleep", !.failures = 0, !.interval = SleepInterval(0),
              !.results = Append(@, "ok")]

\* _guardian_tick up to the decision: gather the context, ask the LLM,
\* fall back to the deterministic rule
GuardianDecide(llm) ==
    /\ guardian.pc = "sleep"
    /\ guardian.ticks < MaxTicks
    /\ LET ctx == GatherContext
       IN guardian' = [guardian EXCEPT
                          !.pc = "log",
                          !.ticks = @ + 1,
                          !.log_start = Len(dbDecision),
                          !.decision = TickDecision(ctx, llm),
                          !.old_version = ctx.model_version,
                          !.old_f1 = ctx.current_f1,
                          !.old_precision = ctx.current_precision,
                          !.new_version = Missing, !.eval = "-", !.rolled_back = FALSE]
    /\ UNCHANGED <<dbVars, sqlVars, caseReqVars, rt, clock, busVars, regVars, lockVars,
                   timeVars>>
    /\ UNCHANGED <<call, minerVars>>

\* _log_decision: INSERT INTO agent_decisions (retrain_skipped / retrain_triggered)
GuardianLogInsert ==
    /\ guardian.pc = "log"
    /\ AcquireWrite(GuardianTask)
    /\ pending' = [pending EXCEPT !.decision = Append(@,
                      [decision_type |-> IF guardian.decision = "SKIP"
                                         THEN "retrain_skipped" ELSE "retrain_triggered",
                       outcome |-> "-",
                       model_version_before |-> guardian.old_version,
                       model_version_after |-> Missing])]
    /\ guardian' = [guardian EXCEPT !.pc = "log_ins"]
    /\ UNCHANGED <<dbVars, caseReqVars, rt, clock, busVars, regVars, lockVars, timeVars>>
    /\ UNCHANGED <<call, minerVars>>

GuardianLogCommit ==
    /\ guardian.pc = "log_ins"
    /\ CommitPending
    /\ guardian' = [guardian EXCEPT !.pc = "log_done"]
    /\ UNCHANGED <<caseReqVars, rt, clock, busVars, regVars, lockVars, timeVars>>
    /\ UNCHANGED <<call, minerVars>>

\* a tick that publishes its decision before it looks at it
GuardianAfterLogPublishesSkip ==
    /\ guardian.pc = "log_done"
    /\ PublishEvents(<<Event("agent_decision", 0)>>)
    /\ IF guardian.decision = "SKIP"
       THEN /\ guardian' = TickDone(guardian)
            /\ UNCHANGED lockVars
       ELSE /\ EnterLock(GuardianTask)
            /\ guardian' = [guardian EXCEPT !.pc = IF LockFree THEN "rt_read" ELSE "waiting"]
    /\ UNCHANGED <<dbVars, sqlVars, caseReqVars, rt, clock, regVars, timeVars>>
    /\ UNCHANGED <<call, minerVars>>

\* SKIP: return.  RETRAIN: publish agent_decision, async with _retrain_lock
GuardianAfterLog ==
    /\ guardian.pc = "log_done"
    /\ IF guardian.decision = "SKIP"
       THEN /\ guardian' = TickDone(guardian)
            /\ UNCHANGED <<busVars, lockVars>>
       ELSE /\ PublishEvents(<<Event("agent_decision", 0)>>)
            /\ EnterLock(GuardianTask)
            /\ guardian' = [guardian EXCEPT !.pc = IF LockFree THEN "rt_read" ELSE "waiting"]
    /\ UNCHANGED <<dbVars, sqlVars, caseReqVars, rt, clock, regVars, timeVars>>
    /\ UNCHANGED <<call, minerVars>>

GuardianLockGranted ==
    /\ guardian.pc = "waiting"
    /\ retrainHolder = NoTask
    /\ retrainWaiters # <<>> /\ Head(retrainWaiters) = GuardianTask
    /\ retrainHolder' = GuardianTask
    /\ retrainWaiters' = Tail(retrainWaiters)
    /\ guardian' = [guardian EXCEPT !.pc = "rt_read"]
    /\ UNCHANGED <<dbVars, sqlVars, caseReqVars, rt, clock, busVars, regVars, timeVars>>
    /\ UNCHANGED <<call, minerVars>>

\* retrain_fn(write_snapshot=False): the SELECT of _do_retrain
GuardianRead ==
    /\ guardian.pc = "rt_read"
    /\ guardian' = [guardian EXCEPT !.pc = "rt_train", !.fraud = FraudLabels,
                                    !.legit = LegitLabels]
    /\ UNCHANGED <<dbVars, sqlVars, caseReqVars, rt, clock, busVars, regVars, lockVars,
                   timeVars>>
    /\ UNCHANGED <<call, minerVars>>

\* train_model, leave the lock block, evaluate (LLM or deterministic), and on
\* ROLLBACK _rollback_model(new_version); nothing here suspends
GuardianTrain(m, llm) ==
    /\ guardian.pc = "rt_train"
    /\ ReleaseLock(GuardianTask)
    /\ IF ~Trainable(guardian.fraud, guardian.legit)
       THEN /\ guardian' = TickDone(guardian)
            /\ UNCHANGED regVars
       ELSE LET v == BumpVersion(GetModelVersion(files))
                c == [run |-> trainCount + 1, f1 |-> m.f1, precision |-> m.precision]
                saved == TrainSave(files, trainCount + 1, m)
                ev == TickEval(guardian.old_f1, guardian.old_precision,
                               m.f1, m.precision, llm)
                rb == RollbackModel(saved, v)
            IN /\ trainCount' = trainCount + 1
               /\ everWritten' = everWritten \cup
                      {[kind |-> "model", ver |-> v, content |-> c],
                       [kind |-> "metrics", ver |-> v, content |-> c]}
               /\ files' = IF ev = "KEEP" THEN saved ELSE rb.files
               /\ mlCache' = Unloaded
               /\ guardian' = [guardian EXCEPT
                                  !.pc = "outcome", !.new_version = v, !.eval = ev,
                                  !.rolled_back = (ev = "ROLLBACK" /\ rb.ok)]
    /\ UNCHANGED <<dbVars, sqlVars, caseReqVars, rt, clock, busVars, timeVars>>
    /\ UNCHANGED <<call, minerVars>>

\* an outcome step that writes the snapshot whatever the evaluation said
GuardianOutcomeInsertAlwaysSnapshot ==
    /\ guardian.pc = "outcome"
    /\ AcquireWrite(GuardianTask)
    /\ pending' = [pending EXCEPT
           !.snap = @ \cup {[timestamp |-> clock, wall |-> now,
                             model_version |-> guardian.new_version]},
           !.decision = Append(@,
              [decision_type |-> IF guardian.eval = "KEEP" THEN "model_kept"
                                 ELSE "model_rolled_back",
               outcome |-> "-",
               model_version_before |-> guardian.old_version,
               model_version_after |-> guardian.new_version])]
    /\ clock' = clock + 1
    /\ guardian' = [guardian EXCEPT !.pc = "outcome_ins"]
    /\ UNCHANGED <<dbVars, caseReqVars, rt, busVars, regVars, lockVars, timeVars>>
    /\ UNCHANGED <<call, minerVars>>

\* KEEP: INSERT INTO metric_snapshots and _log_decision(model_kept);
\* ROLLBACK: _log_decision(model_rolled_back)
GuardianOutcomeInsert ==
    /\ guardian.pc = "outcome"
    /\ AcquireWrite(GuardianTask)
    /\ IF guardian.eval = "KEEP"
       THEN /\ pending' = [pending EXCEPT
                   !.snap = @ \cup {[timestamp |-> clock, wall |-> now,
                                     model_version |-> guardian.new_version]},
                   !.decision = Append(@,
                      [decision_type |-> "model_kept", outcome |-> "kept",
                       model_version_before |-> guardian.old_version,
                       model_version_after |-> guardian.new_version])]
            /\ clock' = clock + 1
       ELSE /\ pending' = [pending EXCEPT
                   !.decision = Append(@,
                      [decision_type |-> "model_rolled_back",
                       outcome |-> IF guardian.rolled_back THEN "rolled_back"
                                   ELSE "kept_only_model",
                       model_version_before |-> guardian.old_version,
                       model_version_after |-> IF guardian.rolled_back
                                               THEN guardian.old_version
                                               ELSE guardian.new_version])]
            /\ UNCHANGED clock
    /\ guardian' = [guardian EXCEPT !.pc = "outcome_ins"]
    /\ UNCHANGED <<dbVars, caseReqVars, rt, busVars, regVars, lockVars, timeVars>>
    /\ UNCHANGED <<call, minerVars>>

GuardianOutcomeCommit ==
    /\ guardian.pc = "outcome_ins"
    /\ CommitPending
    /\ guardian' = [guardian EXCEPT !.pc = "outcome_done"]
    /\ UNCHANGED <<caseReqVars, rt, clock, busVars, regVars, lockVars, timeVars>>
    /\ UNCHANGED <<call, minerVars>>

\* publish agent_decision (model_kept / model_rolled_back); the tick ends
GuardianOutcomePublish ==
    /\ guardian.pc = "outcome_done"
    /\ PublishEvents(<<Event("agent_decision", 0)>>)
    /\ guardian' = TickDone(guardian)
    /\ UNCHANGED <<dbVars, sqlVars, caseReqVars, rt, clock, regVars, lockVars, timeVars>>
    /\ UNCHANGED <<call, minerVars>>

\* a store operation of the tick raises: run_guardian_loop counts the failure
GuardianFail ==
    /\ guardian.pc \in {"log", "log_ins", "rt_read", "outcome", "outcome_ins"}
    /\ RollbackPending(GuardianTask)
    /\ ReleaseLock(GuardianTask)
    /\ guardian' = [guardian EXCEPT !.pc = "sleep", !.failures = @ + 1,
                                    !.interval = SleepInterval(guardian.failures + 1),
                                    !.results = Append(@, "failed")]
    /\ UNCHANGED <<caseReqVars, rt, clock, busVars, regVars, timeVars>>
    /\ UNCHANGED <<call, minerVars>>

\* a cancellation that would drop the task without leaving its lock block
CancelLockKeepsHolder(p) ==
    /\ retrainWaiters' = RemoveFirst(retrainWaiters, p)
    /\ UNCHANGED retrainHolder

\* CancelledError in task p: raised inside the lock block it passes
\* __aexit__, which releases the lock; raised inside acquire() it removes the
\* task's future from the waiters
CancelLock(p) ==
    /\ retrainHolder' = IF retrainHolder = p THEN NoTask ELSE retrainHolder
    /\ retrainWaiters' = RemoveFirst(retrainWaiters, p)

\* POST /guardian/stop: _guardian_task.cancel() raises CancelledError at the
\* await the task is suspended in; no handler of the tick catches it (it is
\* not an Exception), the open connection is closed and run_guardian_loop
\* returns. results records where the cancellation met the task.
GuardianCancel ==
    /\ guardian.pc \notin {"off", "stopped"}
    /\ RollbackPending(GuardianTask)
    /\ CancelLock(GuardianTask)
    /\ guardian' = [guardian EXCEPT
                       !.pc = "stopped",
                       !.results = Append(@, IF retrainHolder = GuardianTask
                                             THEN "cancelled in lock"
                                             ELSE IF guardian.pc = "waiting"
                                                  THEN "cancelled waiting"
                                                  ELSE "cancelled")]
    /\ UNCHANGED <<caseReqVars, rt, clock, busVars, regVars, timeVars>>
    /\ UNCHANGED <<call, minerVars>>

\* ---------------------------------------------------------- initial state
InitTasks ==
    [p \in TaskIds |-> [pc |-> IF p[1] = "ar" THEN "none" ELSE "idle",
                        fraud |-> 0, legit |-> 0, version |-> <<>>,
                        started |-> None]]

InitRequests ==
    /\ ing = [i \in IngestIds |-> [pc |-> "idle", score |-> 0, gt |-> "null",
                                   timestamp |-> 0, at |-> "-",
                                   count_1h |-> 0, txn |-> TransferOf100]]
    /\ exp = [i \in IngestIds |-> "none"]
    /\ lab = [j \in LabelReqIds |-> [pc |-> "idle", case_id |-> 0, decision |-> "-",
                                     txn_id |-> 0, labeled_at |-> 0]]
    /\ rt = InitTasks
    /\ writer = NoWriter
    /\ pending = EmptyPending

InitBus ==
    /\ published = [i \in EventIds |-> <<>>]
    /\ subscribers = <<>>
    /\ queue = [k \in ClientIds |-> <<>>]
    /\ accepted = [k \in ClientIds |-> [i \in EventIds |-> <<>>]]
    /\ stream = [k \in ClientIds |-> NoStream]

InitControl ==
    /\ files = {}
    /\ everWritten = {}
    /\ trainCount = 0
    /\ mlCache = Unloaded
    /\ retrainHolder = NoTask
    /\ retrainWaiters = <<>>
    /\ now = DEBOUNCE_SECONDS
    /\ lastRetrainTime = 0
    /\ guardian = [GuardianIdle EXCEPT !.pc = "off"]

\* a fresh database (init_db_tables) and an empty model directory
Fresh ==
    /\ dbTxn = {} /\ dbRisk = {} /\ dbCase = {} /\ dbLabel = {}
    /\ dbSnap = {} /\ dbDecision = <<>>
    /\ clock = 0
    /\ InitRequests
    /\ InitBus
    /\ InitControl
    /\ NoMining

Init == Fresh /\ call = NoCall

Next ==
    \/ \E i \in IngestIds, s \in ScoreValues, g \in GroundTruthInputs : IngestScore(i, s, g)
    \/ \E i \in IngestIds : IngestScoreFail(i)
    \/ \E i \in IngestIds : IngestInsertTxn(i)
    \/ \E i \in IngestIds : IngestInsertRisk(i)
    \/ \E i \in IngestIds : IngestInsertCase(i)
    \/ \E i \in IngestIds : IngestCommit(i)
    \/ \E i \in IngestIds : IngestPublish(i)
    \/ \E i \in IngestIds : IngestStoreFail(i)
    \/ \E i \in IngestIds : ExplainUpdate(i)
    \/ \E i \in IngestIds : ExplainCommit(i)
    \/ \E i \in IngestIds : ExplainPublish(i)
    \/ \E i \in IngestIds : ExplainFail(i)

\* ingestion pipeline and auto-explain
Spec == Init /\ [][Next]_vars

\* scores on both sides of the review threshold
EventScoreValues == {REVIEW_THRESHOLD - 1, REVIEW_THRESHOLD}

NextEvents ==
    \/ \E i \in IngestIds, s \in EventScoreValues, g \in GroundTruthInputs :
          IngestScore(i, s, g)
    \/ \E i \in IngestIds : IngestScoreFail(i)
    \/ \E i \in IngestIds : IngestInsertTxn(i)
    \/ \E i \in IngestIds : IngestInsertRisk(i)
    \/ \E i \in IngestIds : IngestInsertCase(i)
    \/ \E i \in IngestIds : IngestCommit(i)
    \/ \E i \in IngestIds : IngestPublish(i)
    \/ \E i \in IngestIds : IngestStoreFail(i)
    \/ \E i \in IngestIds : ExplainUpdate(i)
    \/ \E i \in IngestIds : ExplainCommit(i)
    \/ \E i \in IngestIds : ExplainPublish(i)
    \/ \E i \in IngestIds : ExplainFail(i)
    \/ \E k \in ClientIds : Subscribe(k)
    \/ \E k \in ClientIds : Consume(k)
    \/ \E k \in ClientIds : Unsubscribe(k)

\* ingestion pipeline, auto-explain and the subscribers of the event bus
SpecEvents == Init /\ [][NextEvents]_vars

\* request bodies with a listed and an unlisted txn_type, an overlong one,
\* and amounts that are positive, negative, NaN and infinite
TransactionInputs ==
    [txn_type : {TxnType("transfer", 8), TxnType("wire", 4), TxnType("x..x", 65)},
     amount : {Amount("finite", 100), Amount("finite", 0 - 1), Amount("nan", 0),
               Amount("inf", 0)}]

\* a fresh database; the first create_transaction request carries any body,
\* the others a valid one
InitIngress ==
    /\ dbTxn = {} /\ dbRisk = {} /\ dbCase = {} /\ dbLabel = {}
    /\ dbSnap = {} /\ dbDecision = <<>>
    /\ clock = 0
    /\ \E txn \in TransactionInputs :
          ing = [i \in IngestIds |-> [pc |-> "idle", score |-> 0, gt |-> "null",
                                      timestamp |-> 0, at |-> "-", count_1h |-> 0,
                                      txn |-> IF i = 1 THEN txn ELSE TransferOf100]]
    /\ exp = [i \in IngestIds |-> "none"]
    /\ lab = [j \in LabelReqIds |-> [pc |-> "idle", case_id |-> 0, decision |-> "-",
                                     txn_id |-> 0, labeled_at |-> 0]]
    /\ rt = InitTasks
    /\ writer = NoWriter
    /\ pending = EmptyPending
    /\ InitBus
    /\ InitControl
    /\ call = NoCall
    /\ NoMining

NextIngress ==
    \/ \E i \in IngestIds : IngestReject(i)
    \/ \E i \in IngestIds, s \in EventScoreValues, g \in GroundTruthInputs :
          IngestScore(i, s, g)
    \/ \E i \in IngestIds : IngestScoreFail(i)
    \/ \E i \in IngestIds : IngestInsertTxn(i)
    \/ \E i \in IngestIds : IngestInsertRisk(i)
    \/ \E i \in IngestIds : IngestInsertCase(i)
    \/ \E i \in IngestIds : IngestCommit(i)
    \/ \E i \in IngestIds : IngestPublish(i)
    \/ \E i \in IngestIds : IngestStoreFail(i)

\* validation at ingress, then the ingestion pipeline
SpecIngress == InitIngress /\ [][NextIngress]_vars

\* ---------------------------------------------------------- case service
\* 0 is the id of no case
CaseIdInputs == 0..MaxIngest

\* every ingestion has completed and was flagged: one case per transaction,
\* all open, or the last one already labelled fraud and closed
InitLabel ==
    /\ dbTxn = {[txn_id |-> i, timestamp |-> 0, gt |-> "null"] : i \in IngestIds}
    /\ dbRisk = {[txn_id |-> i, score |-> BLOCK_THRESHOLD, flagged |-> TRUE] : i \in IngestIds}
    /\ \E st \in {"open", "closed"} :
          /\ dbCase = {[case_id |-> i, txn_id |-> i,
                        status |-> IF i = MaxIngest THEN st ELSE "open",
                        explained |-> TRUE] : i \in IngestIds}
          /\ dbLabel = IF st = "open" THEN {}
                       ELSE {[label_id |-> 0, case_id |-> MaxIngest, txn_id |-> MaxIngest,
                              decision |-> "fraud", labeled_at |-> 0]}
          /\ published = [i \in EventIds |->
                IF i = 0 THEN <<>>
                ELSE IF i = MaxIngest /\ st = "closed"
                THEN <<"transaction", "case_created", "case_explained", "case_labeled">>
                ELSE <<"transaction", "case_created", "case_explained">>]
    /\ dbSnap = {} /\ dbDecision = <<>>
    /\ clock = 1
    /\ ing = [i \in IngestIds |-> [pc |-> "done", score |-> BLOCK_THRESHOLD, gt |-> "null",
                                   timestamp |-> 0, at |-> "-",
                                   count_1h |-> 0, txn |-> TransferOf100]]
    /\ exp = [i \in IngestIds |-> "done"]
    /\ lab = [j \in LabelReqIds |-> [pc |-> "idle", case_id |-> 0, decision |-> "-",
                                     txn_id |-> 0, labeled_at |-> 0]]
    /\ rt = InitTasks
    /\ writer = NoWriter
    /\ pending = EmptyPending
    /\ subscribers = <<>>
    /\ queue = [k \in ClientIds |-> <<>>]
    /\ accepted = [k \in ClientIds |-> [i \in EventIds |-> <<>>]]
    /\ stream = [k \in ClientIds |-> NoStream]
    /\ InitControl
    /\ call = NoCall
    /\ NoMining

NextLabel ==
    \/ \E j \in LabelReqIds, c \in CaseIdInputs, d \in LabelDecisions : LabelCheck(j, c, d)
    \/ \E j \in LabelReqIds : LabelInsert(j)
    \/ \E j \in LabelReqIds : LabelUpdate(j)
    \/ \E j \in LabelReqIds : LabelCommit(j)
    \/ \E j \in LabelReqIds : LabelPublish(j)
    \/ \E j \in LabelReqIds : LabelStoreFail(j)

\* concurrent label requests on existing cases
SpecLabel == InitLabel /\ [][NextLabel]_vars

\* --------------------------------------------------------- retrain paths
SeedFraud == MIN_SAMPLES_PER_CLASS
SeedLegit == MIN_SAMPLES_PER_CLASS - 2
SeedIds == {100 + n : n \in 1..(SeedFraud + SeedLegit)}
SeedClass(id) == IF id <= 100 + SeedFraud THEN "fraud" ELSE "legit"

\* the case that label request j has labelled
RequestCase(j) == ((j - 1) % MaxIngest) + 1

\* the model a bootstrap run of train_model leaves in an empty directory
BootstrapFiles == TrainSave({}, 0, [f1 |-> 80, precision |-> 80])

\* A database that holds labelled, closed cases: SeedFraud fraud labels,
\* SeedLegit not_fraud labels, and the labels of the label requests, which
\* have just committed (request 1 decided d1, the others not_fraud); the
\* Guardian has run ticksDone ticks and skipped in each.
SeededRows(d1, ticksDone, fs) ==
    /\ dbTxn = {[txn_id |-> i, timestamp |-> 0, gt |-> SeedClass(i)] : i \in SeedIds}
                  \cup {[txn_id |-> i, timestamp |-> 0, gt |-> "legit"] : i \in IngestIds}
    /\ dbRisk = {[txn_id |-> i, score |-> BLOCK_THRESHOLD, flagged |-> TRUE] :
                    i \in SeedIds \cup IngestIds}
    /\ dbCase = {[case_id |-> i, txn_id |-> i, status |-> "closed", explained |-> TRUE] :
                    i \in SeedIds}
                  \cup {[case_id |-> i, txn_id |-> i,
                         status |-> IF \E j \in LabelReqIds : RequestCase(j) = i
                                    THEN "closed" ELSE "open",
                         explained |-> TRUE] : i \in IngestIds}
    /\ dbLabel = {[label_id |-> i, case_id |-> i, txn_id |-> i,
                   decision |-> IF SeedClass(i) = "fraud" THEN "fraud" ELSE "not_fraud",
                   labeled_at |-> 0] : i \in SeedIds}
                  \cup {[label_id |-> j, case_id |-> RequestCase(j),
                         txn_id |-> RequestCase(j),
                         decision |-> IF j = 1 THEN d1 ELSE "not_fraud",
                         labeled_at |-> 0] : j \in LabelReqIds}
    /\ dbSnap = {}
    /\ dbDecision = [n \in 1..ticksDone |->
                        [decision_type |-> "retrain_skipped", outcome |-> "-",
                         model_version_before |-> GetModelVersion(fs),
                         model_version_after |-> Missing]]
    /\ clock = 1
    /\ writer = NoWriter
    /\ pending = EmptyPending
    /\ InitBus

\* that database, with the create_transaction requests over
SeededDb(d1, ticksDone, fs) ==
    /\ SeededRows(d1, ticksDone, fs)
    /\ ing = [i \in IngestIds |-> [pc |-> "done", score |-> BLOCK_THRESHOLD, gt |-> "legit",
                                   timestamp |-> 0, at |-> "-",
                                   count_1h |-> 0, txn |-> TransferOf100]]
    /\ exp = [i \in IngestIds |-> "done"]

RegistryWith(fs, ticksDone) ==
    /\ files = fs
    /\ everWritten = {[kind |-> f.kind, ver |-> f.ver, content |-> f.content] : f \in fs}
    /\ trainCount = 0
    /\ mlCache = Unloaded
    /\ retrainHolder = NoTask
    /\ retrainWaiters = <<>>
    /\ now = DEBOUNCE_SECONDS
    /\ lastRetrainTime = 0
    /\ guardian = [GuardianIdle EXCEPT !.ticks = ticksDone, !.log_start = ticksDone,
                                      !.interval = SleepInterval(0),
                                      !.results = [n \in 1..ticksDone |-> "ok"]]
    /\ call = NoCall
    /\ NoMining

\* the first MaxAuto label requests have committed their label and are about
\* to publish case_labeled and call _maybe_auto_retrain; the bootstrap model
\* exists and the Guardian has one tick to go
InitRetrain ==
    /\ \E d1 \in TerminalDecisions :
          /\ SeededDb(d1, MaxTicks - 1, BootstrapFiles)
          /\ lab = [j \in LabelReqIds |->
                       [pc |-> IF j <= MaxAuto THEN "committed" ELSE "done",
                        case_id |-> RequestCase(j),
                        decision |-> IF j = 1 THEN d1 ELSE "not_fraud",
                        txn_id |-> RequestCase(j), labeled_at |-> 0]]
    /\ rt = InitTasks
    /\ RegistryWith(BootstrapFiles, MaxTicks - 1)

NextRetrain ==
    \/ \E j \in LabelReqIds : LabelPublish(j)
    \/ \E j \in LabelReqIds : ArCheck(j)
    \/ \E j \in LabelReqIds : ArAcquire(j)
    \/ \E k \in 1..MaxManual : MrAcquire(k)
    \/ \E p \in LockTasks : LockGranted(p)
    \/ \E p \in LockTasks : RtRead(p)
    \/ \E p \in LockTasks, m \in RequestMetricInputs : RtTrain(p, m)
    \/ \E p \in TaskIds : RtSnapInsert(p)
    \/ \E p \in TaskIds : RtSnapCommit(p)
    \/ \E p \in TaskIds : RtFinish(p)
    \/ \E p \in TaskIds : RtFail(p)
    \/ \E llm \in LlmDecisions : GuardianDecide(llm)
    \/ GuardianLogInsert
    \/ GuardianLogCommit
    \/ GuardianAfterLog
    \/ GuardianLockGranted
    \/ GuardianRead
    \/ \E m \in MetricInputs, llm \in LlmEvals : GuardianTrain(m, llm)
    \/ GuardianOutcomeInsert
    \/ GuardianOutcomeCommit
    \/ GuardianOutcomePublish
    \/ GuardianFail

\* label-triggered, manual and Guardian retrains contending for _retrain_lock
SpecRetrain == InitRetrain /\ [][NextRetrain]_vars

\* wall-clock time passes between two steps of the event loop
MaxElapsed == 3

Elapse ==
    /\ now < DEBOUNCE_SECONDS + MaxElapsed * (DEBOUNCE_SECONDS \div 2)
    /\ now' = now + DEBOUNCE_SECONDS \div 2
    /\ UNCHANGED <<dbVars, sqlVars, caseReqVars, rt, clock, busVars, regVars, lockVars,
                   lastRetrainTime, guardian>>
    /\ UNCHANGED <<call, minerVars>>

\* every label request has committed a terminal label and is about to publish
\* case_labeled and call _maybe_auto_retrain; the Guardian is not running
InitDebounce ==
    /\ \E d1 \in TerminalDecisions :
          /\ SeededDb(d1, MaxTicks, BootstrapFiles)
          /\ lab = [j \in LabelReqIds |->
                       [pc |-> "committed", case_id |-> RequestCase(j),
                        decision |-> IF j = 1 THEN d1 ELSE "not_fraud",
                        txn_id |-> RequestCase(j), labeled_at |-> 0]]
    /\ rt = InitTasks
    /\ RegistryWith(BootstrapFiles, MaxTicks)

NextDebounce ==
    \/ \E j \in LabelReqIds : LabelPublish(j)
    \/ \E j \in LabelReqIds : ArCheck(j)
    \/ \E j \in LabelReqIds : ArAcquire(j)
    \/ \E p \in LockTasks : LockGranted(p)
    \/ \E p \in LockTasks : RtRead(p)
    \/ \E p \in LockTasks, m \in RequestMetricInputs : RtTrain(p, m)
    \/ \E p \in TaskIds : RtSnapInsert(p)
    \/ \E p \in TaskIds : RtSnapCommit(p)
    \/ \E p \in TaskIds : RtFinish(p)
    \/ \E p \in TaskIds : RtFail(p)
    \/ Elapse

\* terminal labels arriving one after another while time passes
SpecDebounce == InitDebounce /\ [][NextDebounce]_vars

\* the label requests are over; the model directory is empty or holds the
\* bootstrap model
InitGuardian ==
    /\ SeededDb("not_fraud", 0, {})
    /\ lab = [j \in LabelReqIds |->
                 [pc |-> "done", case_id |-> RequestCase(j), decision |-> "not_fraud",
                  txn_id |-> RequestCase(j), labeled_at |-> 0]]
    /\ rt = InitTasks
    /\ \E fs \in {{}, BootstrapFiles} : RegistryWith(fs, 0)

NextGuardian ==
    \/ \E llm \in LlmDecisions : GuardianDecide(llm)
    \/ GuardianLogInsert
    \/ GuardianLogCommit
    \/ GuardianAfterLog
    \/ GuardianLockGranted
    \/ GuardianRead
    \/ \E m \in MetricInputs, llm \in LlmEvals : GuardianTrain(m, llm)
    \/ GuardianOutcomeInsert
    \/ GuardianOutcomeCommit
    \/ GuardianOutcomePublish
    \/ GuardianFail
    \/ \E k \in 1..MaxManual : MrAcquire(k)
    \/ \E p \in LockTasks : LockGranted(p)
    \/ \E p \in LockTasks : RtRead(p)
    \/ \E p \in LockTasks, m \in RequestMetricInputs : RtTrain(p, m)
    \/ \E p \in TaskIds : RtSnapInsert(p)
    \/ \E p \in TaskIds : RtSnapCommit(p)
    \/ \E p \in TaskIds : RtFinish(p)
    \/ \E p \in TaskIds : RtFail(p)

\* Guardian ticks and manual retrains over the model directory
SpecGuardian == InitGuardian /\ [][NextGuardian]_vars

NextLock ==
    \/ \E llm \in LlmDecisions : GuardianDecide(llm)
    \/ GuardianLogInsert
    \/ GuardianLogCommit
    \/ GuardianAfterLog
    \/ GuardianLockGranted
    \/ GuardianRead
    \/ \E m \in MetricInputs, llm \in LlmEvals : GuardianTrain(m, llm)
    \/ GuardianOutcomeInsert
    \/ GuardianOutcomeCommit
    \/ GuardianOutcomePublish
    \/ GuardianFail
    \/ GuardianCancel
    \/ \E k \in 1..MaxManual : MrAcquire(k)
    \/ \E p \in LockTasks : LockGranted(p)
    \/ \E p \in LockTasks : RtRead(p)
    \/ \E p \in LockTasks, m \in RequestMetricInputs : RtTrain(p, m)
    \/ \E p \in TaskIds : RtSnapInsert(p)
    \/ \E p \in TaskIds : RtSnapCommit(p)
    \/ \E p \in TaskIds : RtFinish(p)
    \/ \E p \in TaskIds : RtFail(p)

\* what the event loop does without waiting for anything outside the
\* process: it resumes a task whose lock was granted, and runs a retrain and
\* a commit to their end
LockProgress ==
    \/ GuardianLockGranted
    \/ GuardianRead
    \/ \E m \in MetricInputs, llm \in LlmEvals : GuardianTrain(m, llm)
    \/ GuardianLogCommit
    \/ GuardianOutcomeCommit
    \/ \E p \in LockTasks : LockGranted(p)
    \/ \E p \in LockTasks : RtRead(p)
    \/ \E p \in LockTasks, m \in RequestMetricInputs : RtTrain(p, m)
    \/ \E p \in TaskIds : RtSnapInsert(p)
    \/ \E p \in TaskIds : RtSnapCommit(p)
    \/ \E p \in TaskIds : RtFinish(p)

\* Guardian ticks, manual retrains and POST /guardian/stop; a task that can
\* run is run
SpecLock == InitGuardian /\ [][NextLock]_vars /\ WF_vars(LockProgress)

\* the label requests are over, the bootstrap model exists and the Guardian
\* has one tick to go
InitGroundTruth ==
    /\ SeededDb("not_fraud", MaxTicks - 1, BootstrapFiles)
    /\ lab = [j \in LabelReqIds |->
                 [pc |-> "done", case_id |-> RequestCase(j), decision |-> "not_fraud",
                  txn_id |-> RequestCase(j), labeled_at |-> 0]]
    /\ rt = InitTasks
    /\ RegistryWith(BootstrapFiles, MaxTicks - 1)

NextGroundTruth ==
    \/ \E g \in 1..MaxGroundTruth : GtRead(g)
    \/ \E g \in 1..MaxGroundTruth, m \in RequestMetricInputs : GtTrain(g, m)
    \/ \E p \in TaskIds : RtSnapInsert(p)
    \/ \E p \in TaskIds : RtSnapCommit(p)
    \/ \E p \in TaskIds : RtFinish(p)
    \/ \E p \in TaskIds : RtFail(p)
    \/ \E llm \in LlmDecisions : GuardianDecide(llm)
    \/ GuardianLogInsert
    \/ GuardianLogCommit
    \/ GuardianAfterLog
    \/ GuardianRead
    \/ \E m \in MetricInputs, llm \in LlmEvals : GuardianTrain(m, llm)
    \/ GuardianOutcomeInsert
    \/ GuardianOutcomeCommit
    \/ GuardianOutcomePublish
    \/ GuardianFail

\* ground-truth retrains next to a Guardian tick
SpecGroundTruth == InitGroundTruth /\ [][NextGroundTruth]_vars

\* ---------------------------------------------------------- model registry
\* the directory after n kept training runs: v0.1.0 .. v0.n.0
RECURSIVE TrainedTimes(_)
TrainedTimes(n) ==
    IF n = 0 THEN {}
    ELSE TrainSave(TrainedTimes(n - 1), 0 - n, [f1 |-> 80, precision |-> 80])

\* number of kept runs behind the seeded directory: the next version has a
\* two-digit minor number
SeedRuns == 9

\* the create_transaction requests are about to be scored, the label requests
\* are over, the Guardian has one tick to go; the model directory holds the
\* bootstrap model or the models of SeedRuns kept runs
InitRegistry ==
    /\ ing = [i \in IngestIds |-> [pc |-> "idle", score |-> 0, gt |-> "null",
                                   timestamp |-> 0, at |-> "-",
                                   count_1h |-> 0, txn |-> TransferOf100]]
    /\ exp = [i \in IngestIds |-> "none"]
    /\ lab = [j \in LabelReqIds |->
                 [pc |-> "done", case_id |-> RequestCase(j), decision |-> "not_fraud",
                  txn_id |-> RequestCase(j), labeled_at |-> 0]]
    /\ rt = InitTasks
    /\ \E fs \in {BootstrapFiles, TrainedTimes(SeedRuns)} :
          /\ SeededRows("not_fraud", MaxTicks - 1, fs)
          /\ RegistryWith(fs, MaxTicks - 1)

\* the requests are followed up to their scoring call
NextRegistry ==
    \/ \E i \in IngestIds, s \in ScoreValues, g \in GroundTruthInputs : IngestScore(i, s, g)
    \/ \E i \in IngestIds : IngestScoreFail(i)
    \/ \E llm \in LlmDecisions : GuardianDecide(llm)
    \/ GuardianLogInsert
    \/ GuardianLogCommit
    \/ GuardianAfterLog
    \/ GuardianRead
    \/ \E m \in MetricInputs, llm \in LlmEvals : GuardianTrain(m, llm)
    \/ GuardianOutcomeInsert
    \/ GuardianOutcomeCommit
    \/ GuardianOutcomePublish
    \/ GuardianFail

\* scoring calls next to a Guardian tick that trains, keeps or rolls back
SpecRegistry == InitRegistry /\ [][NextRegistry]_vars

\* ticks that failed before the loop is observed: the store was down
SeedFailures == FAILURE_BACKOFF_THRESHOLD - 1

\* the bootstrap model exists, the label requests are over and the Guardian's
\* last SeedFailures ticks, or none, have failed before their first INSERT
InitBackoff ==
    /\ SeededDb("not_fraud", 0, BootstrapFiles)
    /\ lab = [j \in LabelReqIds |->
                 [pc |-> "done", case_id |-> RequestCase(j), decision |-> "not_fraud",
                  txn_id |-> RequestCase(j), labeled_at |-> 0]]
    /\ rt = InitTasks
    /\ files = BootstrapFiles
    /\ everWritten = {[kind |-> f.kind, ver |-> f.ver, content |-> f.content] :
                         f \in BootstrapFiles}
    /\ trainCount = 0
    /\ mlCache = Unloaded
    /\ retrainHolder = NoTask
    /\ retrainWaiters = <<>>
    /\ now = DEBOUNCE_SECONDS
    /\ lastRetrainTime = 0
    /\ call = NoCall
    /\ NoMining
    /\ \E f \in {0, SeedFailures} :
          guardian = [GuardianIdle EXCEPT !.failures = f,
                                         !.interval = IF f = 0 THEN 60 ELSE SleepInterval(f),
                                         !.results = [n \in 1..f |-> "failed"]]

NextBackoff ==
    \/ \E llm \in LlmDecisions : GuardianDecide(llm)
    \/ GuardianLogInsert
    \/ GuardianLogCommit
    \/ GuardianAfterLog
    \/ GuardianRead
    \/ \E m \in MetricInputs, llm \in LlmEvals : GuardianTrain(m, llm)
    \/ GuardianOutcomeInsert
    \/ GuardianOutcomeCommit
    \/ GuardianOutcomePublish
    \/ GuardianFail

\* the Guardian loop alone, with ticks that complete and ticks that fail
SpecBackoff == InitBackoff /\ [][NextBackoff]_vars

\* --------------------------------------------------------- pure functions
progVars == <<dbVars, sqlVars, caseReqVars, rt, clock, busVars, ctlVars, minerVars>>

\* a call of fn that has not returned yet
Call(fn, args) == [fn |-> fn, args |-> args, returned |-> FALSE, result |-> "-"]

Return(value) ==
    /\ ~call.returned
    /\ call' = [call EXCEPT !.returned = TRUE, !.result = value]
    /\ UNCHANGED progVars

\* contexts on both sides of every threshold of the rule
ContextInputs ==
    [total_labels : {0, 19, 20},
     labels_since : {0, GUARDIAN_MIN_LABELS - 1, GUARDIAN_MIN_LABELS},
     driftNum : {5, 6}, driftDen : {1},
     txns_since_retrain : {50, 51, 200, 201},
     seconds_since_retrain : {5 * 60, 5 * 60 + 1}]

CallDeterministicDecision ==
    /\ call.fn = "_deterministic_decision"
    /\ Return(DeterministicDecision(call.args))

\* old and new metrics in hundredths, a missing one as None: at, next to and
\* away from the 10% and 15% declines
EvalInputs ==
    [old_f1 : {None, 80, 100}, new_f1 : {None, 71, 72, 73, 89, 90},
     old_precision : {None, 80, 100}, new_precision : {None, 67, 68, 84, 85}]

CallDeterministicEval ==
    /\ call.fn = "_deterministic_eval"
    /\ Return(DeterministicEval(call.args.old_f1, call.args.old_precision,
                                call.args.new_f1, call.args.new_precision))

\* the decision and the evaluation of a tick, as functions of what the
\* tick gathered and of the LLM's answer
CallTickDecision ==
    /\ call.fn = "_guardian_tick.decision"
    /\ Return(TickDecision(call.args.ctx, call.args.text))

CallTickEval ==
    /\ call.fn = "_guardian_tick.eval"
    /\ Return(TickEval(call.args.old_f1, call.args.old_precision,
                       call.args.new_f1, call.args.new_precision, call.args.text))

\* responses with and without a DECISION line
DecisionTexts ==
    LlmDecisions \cup {<<Line("-", <<"HELLO">>)>>,
                       <<Line("DECISION", <<"DO", "NOT", "RETRAIN">>)>>,
                       <<Line("DECISION", <<"RETRAIN">>), Line("DECISION", <<"SKIP">>)>>}
EvalTexts ==
    LlmEvals \cup {<<Line("REASONING", <<"KEEP">>)>>,
                   <<Line("DECISION", <<"ROLLBACK">>), Line("CONFIDENCE", <<"HIGH">>)>>}
TickContexts == {c \in ContextInputs : c.txns_since_retrain = 50 /\ c.driftNum = 5}
TickMetrics ==
    {ms \in EvalInputs : ms.old_precision = None /\ ms.new_precision = None}

\* score_transaction after the model or the rules gave raw, a float written
\* in units of 0.00001: the clamp, the decision from the clamped score, and
\* the score rounded to four decimals (units of 0.0001) in the result
Clamp(raw) == IF raw < 0 THEN 0 ELSE IF raw > 100000 THEN 100000 ELSE raw

\* round(score, 4) of a score that is not halfway between two results
Round4(score) == (score + 5) \div 10

ScoreTransaction(raw) ==
    LET score == Clamp(raw)
    IN [score |-> Round4(score),
        decision |-> IF score >= BLOCK_THRESHOLD * 1000 THEN "block"
                     ELSE IF score >= REVIEW_THRESHOLD * 1000 THEN "review"
                     ELSE "approve"]

\* raw scores outside [0, 1], and next to and at both thresholds
RawScores == {0 - 20000, 0, 30000, 49994, 49996, 50000, 50004, 79994, 79996, 80000,
              80004, 99996, 100000, 120000}

CallScoreTransaction ==
    /\ call.fn = "score_transaction"
    /\ Return(ScoreTransaction(call.args))

\* ------------------------------------------- features, in units of 10^-8
ONE == 100000000

Min(a, b) == IF a < b THEN a ELSE b

\* round(x, 6) and round(x, 4)
Round6(x) == ((x + 50) \div 100) * 100

RoundTo4(x) == ((x + 5000) \div 10000) * 10000

\* dict.get(key, default)
Get(d, key, default) == IF key \in DOMAIN d THEN d[key] ELSE default

\* ip_country_risk_map.get(ip_country, 0.4 if ip_country else 0.0)
IpCountryRisk(ip_country) ==
    IF ip_country = "NG" THEN ONE
    ELSE IF ip_country = "" THEN 0
    ELSE 4 * (ONE \div 10)

\* compute_features(txn) at hour `hour` of datetime.utcnow(): the amount is
\* in units of $0.0001, so that amount / 10000 has the unit of the features
ComputeFeatures(txn, hour) ==
    [amount_normalized |-> Round6(Min(txn.amount, ONE)),
     is_transfer |-> IF txn.txn_type = "transfer" THEN ONE ELSE 0,
     hour_of_day |-> RoundTo4((hour * ONE) \div 23),
     sender_txn_count_1h |->
         Round6(Min(Get(txn, "sender_txn_count_1h", 0) * (ONE \div 20), ONE)),
     ip_country_risk |-> RoundTo4(IpCountryRisk(txn.ip_country)),
     sender_in_ring |-> Get(txn, "sender_in_ring", 0)]

\* compute_training_features(amount, txn_type, channel, velocity)
ComputeTrainingFeatures(amount, txn_type, v) ==
    [amount_normalized |-> Min(amount, ONE),
     is_transfer |-> IF txn_type = "transfer" THEN ONE ELSE 0,
     hour_of_day |-> Get(v, "hour_of_day", ONE \div 2),
     sender_txn_count_1h |->
         Min(Get(v, "sender_txn_count_1h", 0) * (ONE \div 20), ONE),
     ip_country_risk |-> Get(v, "ip_country_risk", 0),
     sender_in_ring |-> Get(v, "sender_in_ring", 0)]

\* _do_retrain: the vector of a labelled transaction is read from
\* risk_results.features, or computed from the row when there is none
TrainingVector(row) ==
    IF row.features # <<>> THEN row.features[1]
    ELSE ComputeTrainingFeatures(row.amount, row.txn_type, <<>>)

\* transactions of $100, $1234.5678 and $20000 with the velocity and pattern
\* context of create_transaction, scored at midnight and at noon
FeatureInputs ==
    [txn : [amount : {1000000, 12345678, 200000000},
            txn_type : {"transfer", "deposit"},
            ip_country : {"", "NG"},
            sender_txn_count_1h : {0, 3},
            sender_in_ring : {0, ONE}],
     hour : {0, 12},
     stored : BOOLEAN]

\* the transaction is scored, stored with its features or without, and later
\* used for training
CallComputeFeatures ==
    /\ call.fn = "compute_features"
    /\ LET txn == call.args.txn
           scoring == ComputeFeatures(txn, call.args.hour)
           context == [sender_txn_count_1h |-> txn.sender_txn_count_1h,
                       sender_in_ring |-> txn.sender_in_ring]
       IN Return([scoring |-> scoring,
                  training |-> ComputeTrainingFeatures(txn.amount, txn.txn_type, context),
                  trained_on |-> TrainingVector(
                      [amount |-> txn.amount, txn_type |-> txn.txn_type,
                       features |-> IF call.args.stored THEN <<scoring>> ELSE <<>>])])

\* inputs of detect_velocity_clusters: one sender with up to MaxPerMinute
\* transactions at each of the minutes 0, 30, 60, 61 and 121, and up to
\* MaxSenders senders with five transactions each, or 5 + s for the sender s,
\* within eleven minutes
MaxPerMinute == 2
MaxSenders == 6
VelocityTimes == {0, 30, 60, 61, 121}
OneSender(f) ==
    {MinedTxn(p, 1, 0, 100, p[1]) :
        p \in {q \in VelocityTimes \X (1..MaxPerMinute) : q[2] <= f[q[1]]}}
Bursts(n, step) ==
    {MinedTxn(p, p[1], 0, 100, p[2]) :
        p \in {q \in (1..n) \X (1..(VELOCITY_THRESHOLD + n)) :
                  q[2] <= VELOCITY_THRESHOLD + step * q[1]}}
VelocityInputs ==
    {OneSender(f) : f \in [VelocityTimes -> 0..MaxPerMinute]}
        \cup {Bursts(n, step) : n \in 1..MaxSenders, step \in {0, 1}}

CallDetectVelocityClusters ==
    /\ call.fn = "detect_velocity_clusters"
    /\ Return(VelocityPatterns(call.args))

InitFunctions ==
    /\ Fresh
    /\ \/ \E ctx \in ContextInputs : call = Call("_deterministic_decision", ctx)
       \/ \E raw \in RawScores : call = Call("score_transaction", raw)
       \/ \E f \in FeatureInputs : call = Call("compute_features", f)
       \/ \E txns \in VelocityInputs : call = Call("detect_velocity_clusters", txns)
       \/ \E ms \in EvalInputs : call = Call("_deterministic_eval", ms)
       \/ \E ctx \in TickContexts, text \in DecisionTexts :
             call = Call("_guardian_tick.decision", [ctx |-> ctx, text |-> text])
       \/ \E ms \in TickMetrics, text \in EvalTexts :
             call = Call("_guardian_tick.eval",
                         [old_f1 |-> ms.old_f1, old_precision |-> ms.old_precision,
                          new_f1 |-> ms.new_f1, new_precision |-> ms.new_precision,
                          text |-> text])

NextFunctions ==
    \/ CallDeterministicDecision
    \/ CallDeterministicEval
    \/ CallTickDecision
    \/ CallTickEval
    \/ CallScoreTransaction
    \/ CallComputeFeatures
    \/ CallDetectVelocityClusters

\* the pure functions of the Guardian and the trainer, each applied to its inputs
SpecFunctions == InitFunctions /\ [][NextFunctions]_vars

\* transaction sets for the miner: two transactions, one 3-cycle with one
\* transaction per edge, and one sender paying five receivers within minutes
TwoTransactions ==
    {MinedTxn(1, "A", "B", 10000, 0), MinedTxn(2, "B", "C", 10000, 1)}
ThreeCycle ==
    {MinedTxn(1, "A", "B", 10000, 0), MinedTxn(2, "B", "C", 10000, 1),
     MinedTxn(3, "C", "A", 10000, 2)}
Star ==
    {MinedTxn(1, "A", "B", 100, 0), MinedTxn(2, "A", "C", 100, 1),
     MinedTxn(3, "A", "D", 100, 2), MinedTxn(4, "A", "E", 100, 3),
     MinedTxn(5, "A", "F", 100, 4)}
MiningInputs == {TwoTransactions, ThreeCycle, Star}

\* the transactions are stored, pattern_cards is empty and no mining
\* execution has begun
InitMining ==
    /\ dbTxn \in MiningInputs
    /\ dbRisk = {} /\ dbCase = {} /\ dbLabel = {}
    /\ dbSnap = {} /\ dbDecision = <<>>
    /\ clock = 0
    /\ InitRequests
    /\ InitBus
    /\ InitControl
    /\ NoMining
    /\ call = NoCall

NextMining ==
    \/ \E r \in MineIds : MineStart(r)
    \/ \E r \in MineIds : MineFetch(r)
    \/ \E r \in MineIds : MineReadExisting(r)
    \/ \E r \in MineIds : MineInsert(r)
    \/ \E r \in MineIds : MineCommit(r)
    \/ \E r \in MineIds : MinePublish(r)
    \/ \E r \in MineIds : MineFail(r)

\* the periodic miner and POST /mine-patterns over a fixed transaction set
SpecMining == InitMining /\ [][NextMining]_vars

\* ------------------------------------------------- patterns/features.py
\* _build_inverted_index: the active cards that list the entity among their
\* member_ids
CardsOf(entity) == {c \in ActiveCards : entity \in c.member_ids}

\* stats["out_degree"] or stats["in_degree"] of a hub card: the number of
\* the hub's counterparties, which are the other member_ids of the card
HubDegree(card) == Cardinality(card.member_ids) - 1

\* min(degree / 20.0, 1.0)
NormalizedDegree(card) == Min((HubDegree(card) * ONE) \div 20, ONE)

\* the loop result[...] = max(result[...], normalized_degree) over the hub
\* cards of the entity, from 0.0
IsHub(entity) ==
    LET degrees == {NormalizedDegree(c) :
                       c \in {d \in CardsOf(entity) : d.rule_type \in {"hub_out", "hub_in"}}}
                   \cup {0}
    IN CHOOSE m \in degrees : \A d \in degrees : d <= m

InPattern(entity, rule_type) ==
    IF \E c \in CardsOf(entity) : c.rule_type = rule_type THEN ONE ELSE 0

\* compute_pattern_features, in units of 10^-8
PatternFeatures(sender_id, receiver_id) ==
    [sender_in_ring |-> InPattern(sender_id, "cycle"),
     sender_is_hub |-> IsHub(sender_id),
     sender_in_velocity_cluster |-> InPattern(sender_id, "velocity"),
     sender_in_dense_cluster |-> InPattern(sender_id, "dense_subgraph"),
     receiver_in_ring |-> InPattern(receiver_id, "cycle"),
     receiver_is_hub |-> IsHub(receiver_id),
     pattern_count_sender |-> Min((Cardinality(CardsOf(sender_id)) * ONE) \div 5, ONE)]

\* the call of create_transaction for a transaction from sender_id to
\* receiver_id: one SELECT of the active cards
ComputePatternFeatures(sender_id, receiver_id) ==
    /\ call' = [fn |-> "compute_pattern_features", sender_id |-> sender_id,
                receiver_id |-> receiver_id,
                result |-> PatternFeatures(sender_id, receiver_id)]
    /\ UNCHANGED <<dbVars, sqlVars, caseReqVars, rt, clock, busVars, ctlVars,
                   dbPattern, mine>>

\* five senders paying one receiver
Funnel ==
    {MinedTxn(1, "B", "A", 100, 0), MinedTxn(2, "C", "A", 100, 1),
     MinedTxn(3, "D", "A", 100, 2), MinedTxn(4, "E", "A", 100, 3),
     MinedTxn(5, "F", "A", 100, 4)}

\* the accounts of the stored transactions and one that has none
Entities == {"A", "B", "C", "Z"}

InitPatternFeatures ==
    /\ dbTxn \in {Star, Funnel, ThreeCycle}
    /\ dbRisk = {} /\ dbCase = {} /\ dbLabel = {}
    /\ dbSnap = {} /\ dbDecision = <<>>
    /\ clock = 0
    /\ InitRequests
    /\ InitBus
    /\ InitControl
    /\ NoMining
    /\ call = NoCall

NextPatternFeatures ==
    \/ \E r \in MineIds : MineStart(r)
    \/ \E r \in MineIds : MineFetch(r)
    \/ \E r \in MineIds : MineReadExisting(r)
    \/ \E r \in MineIds : MineInsert(r)
    \/ \E r \in MineIds : MineCommit(r)
    \/ \E r \in MineIds : MinePublish(r)
    \/ \E r \in MineIds : MineFail(r)
    \/ \E sender_id, receiver_id \in Entities :
          ComputePatternFeatures(sender_id, receiver_id)

\* transactions scored while the miner fills the pattern store
SpecPatternFeatures == InitPatternFeatures /\ [][NextPatternFeatures]_vars

\* ------------------------------------ the event bus at its real capacities
\* asyncio.Queue(maxsize=100)
QUEUE_MAXSIZE == 100

\* clients of GET /stream/events: more than the cap allows
BusClients == 1..(MAX_SUBSCRIBERS + MaxClients)

\* connected clients that do not read their stream
SlowClients == 1..(MAX_SUBSCRIBERS - 1)

\* clients that connect, read and disconnect
LiveClients == BusClients \ SlowClients

BusEvents == {Event("pattern", 0), Event("retrain", 0)}

\* the slow clients are connected and one event short of a full queue
InitBusFull ==
    /\ published = [i \in EventIds |->
                       IF i = 0 THEN [j \in 1..(QUEUE_MAXSIZE - 1) |-> "pattern"]
                       ELSE <<>>]
    /\ subscribers = [j \in 1..(MAX_SUBSCRIBERS - 1) |-> j]
    /\ queue = [k \in BusClients |->
                   IF k \in SlowClients
                   THEN [j \in 1..(QUEUE_MAXSIZE - 1) |-> Event("pattern", 0)]
                   ELSE <<>>]
    /\ accepted = [k \in BusClients |-> [i \in EventIds |->
                      IF k \in SlowClients /\ i = 0
                      THEN [j \in 1..(QUEUE_MAXSIZE - 1) |-> "pattern"]
                      ELSE <<>>]]
    /\ stream = [k \in BusClients |->
                    IF k \in SlowClients
                    THEN [pc |-> "streaming",
                          offered |-> [j \in 1..(QUEUE_MAXSIZE - 1) |->
                                          Event("pattern", 0)],
                          delivered |-> <<>>]
                    ELSE NoStream]

\* GET /stream/events with its response: 503 at the cap, else the queue of
\* the client is registered and the response holds a generate() not yet run
StreamEvents(k) ==
    /\ ~InSeq(subscribers, k)
    /\ stream[k].pc = "-"
    /\ queue[k] = <<>>
    /\ IF CapReached(Len(subscribers))
       THEN /\ call' = [fn |-> "stream_events", client |-> k, status |-> 503]
            /\ UNCHANGED <<subscribers, stream>>
       ELSE /\ call' = [fn |-> "stream_events", client |-> k, status |-> 200]
            /\ subscribers' = Append(subscribers, k)
            /\ stream' = [stream EXCEPT ![k].pc = "registered"]
    /\ UNCHANGED <<published, queue, accepted>>
    /\ UNCHANGED <<dbVars, sqlVars, caseReqVars, rt, clock, ctlVars, minerVars>>

\* the response starts to iterate generate(): it enters the try block and
\* yields the 'connected' message
GenerateStart(k) ==
    /\ stream[k].pc = "registered"
    /\ stream' = [stream EXCEPT ![k].pc = "streaming"]
    /\ UNCHANGED <<published, subscribers, queue, accepted>>
    /\ UNCHANGED <<dbVars, sqlVars, caseReqVars, rt, clock, ctlVars>>
    /\ UNCHANGED <<call, minerVars>>

\* the client goes away before the response has iterated generate(): the
\* generator object is dropped unstarted, its try / finally never runs
GenerateNeverRuns(k) ==
    /\ stream[k].pc = "registered"
    /\ stream' = [stream EXCEPT ![k].pc = "closed"]
    /\ UNCHANGED <<published, subscribers, queue, accepted>>
    /\ UNCHANGED <<dbVars, sqlVars, caseReqVars, rt, clock, ctlVars>>
    /\ UNCHANGED <<call, minerVars>>

\* _publish_event(event) with queues of maxsize 100
PublishEvent(e) ==
    /\ Len(published[e.id]) < QUEUE_MAXSIZE - 1 + MaxPublish
    /\ LET qa == PutAllMax([q |-> queue, a |-> accepted], subscribers, e,
                           QUEUE_MAXSIZE)
       IN /\ published' = Log(published, e)
          /\ queue' = qa.q
          /\ accepted' = qa.a
    /\ stream' = Offer(stream, subscribers, <<e>>)
    /\ UNCHANGED subscribers
    /\ UNCHANGED <<dbVars, sqlVars, caseReqVars, rt, clock, ctlVars>>
    /\ UNCHANGED <<call, minerVars>>

InitBusSpec ==
    /\ dbTxn = {} /\ dbRisk = {} /\ dbCase = {} /\ dbLabel = {}
    /\ dbSnap = {} /\ dbDecision = <<>>
    /\ clock = 0
    /\ InitRequests
    /\ InitBusFull
    /\ InitControl
    /\ NoMining
    /\ call = NoCall

NextBus ==
    \/ \E k \in LiveClients : StreamEvents(k)
    \/ \E k \in LiveClients : GenerateStart(k)
    \/ \E k \in LiveClients : GenerateNeverRuns(k)
    \/ \E e \in BusEvents : PublishEvent(e)
    \/ \E k \in LiveClients : Consume(k)
    \/ \E k \in LiveClients : Unsubscribe(k)

\* publishers and the clients of the event stream next to 49 slow clients
SpecBus == InitBusSpec /\ [][NextBus]_vars

\* ------------------------------------------------------- suggested cases
\* cases.risk_score: the score of the risk result stored with the case
CaseRiskScore(c) == (CHOOSE r \in dbRisk : r.txn_id = c.txn_id).score

\* ABS(c.risk_score - 0.5), in hundredths
Uncertainty(c) ==
    IF CaseRiskScore(c) >= 50 THEN CaseRiskScore(c) - 50 ELSE 50 - CaseRiskScore(c)

\* SELECT ... FROM cases WHERE status IN ('open', 'in_review')
\* ORDER BY uncertainty ASC LIMIT ?
SuggestedCases(limit) ==
    LET live == {c \in dbCase : c.status \in {"open", "in_review"}}
        rows == Take(Ranked(live, [c \in live |-> 0 - Uncertainty(c)]), limit)
    IN [n \in 1..Len(rows) |->
           [case_id |-> rows[n].case_id, status |-> rows[n].status,
            uncertainty |-> Uncertainty(rows[n])]]

\* GET /cases/suggested?limit=
SuggestedCasesRequest(limit) ==
    /\ call' = [fn |-> "suggested_cases", limit |-> limit,
                result |-> SuggestedCases(limit)]
    /\ UNCHANGED progVars

\* risk scores of the seeded cases: 0.95, 0.75, ... (all flagged, all different)
SeedScore(i) == 95 - 20 * (i - 1)

SuggestedLimits == {0, 1, MaxIngest}

\* every ingestion has completed and was flagged: one open case per
\* transaction, the later the case the nearer its score to 0.5
InitSuggested ==
    /\ dbTxn = {[txn_id |-> i, timestamp |-> 0, gt |-> "null"] : i \in IngestIds}
    /\ dbRisk = {[txn_id |-> i, score |-> SeedScore(i), flagged |-> TRUE] : i \in IngestIds}
    /\ dbCase = {[case_id |-> i, txn_id |-> i, status |-> "open",
                  explained |-> TRUE] : i \in IngestIds}
    /\ dbLabel = {}
    /\ published = [i \in EventIds |->
                       IF i = 0 THEN <<>>
                       ELSE <<"transaction", "case_created", "case_explained">>]
    /\ dbSnap = {} /\ dbDecision = <<>>
    /\ clock = 1
    /\ ing = [i \in IngestIds |-> [pc |-> "done", score |-> SeedScore(i), gt |-> "null",
                                   timestamp |-> 0, at |-> "-",
                                   count_1h |-> 0, txn |-> TransferOf100]]
    /\ exp = [i \in IngestIds |-> "done"]
    /\ lab = [j \in LabelReqIds |-> [pc |-> "idle", case_id |-> 0, decision |-> "-",
                                     txn_id |-> 0, labeled_at |-> 0]]
    /\ rt = InitTasks
    /\ writer = NoWriter
    /\ pending = EmptyPending
    /\ subscribers = <<>>
    /\ queue = [k \in ClientIds |-> <<>>]
    /\ accepted = [k \in ClientIds |-> [i \in EventIds |-> <<>>]]
    /\ stream = [k \in ClientIds |-> NoStream]
    /\ InitControl
    /\ call = NoCall
    /\ NoMining

NextSuggested ==
    \/ \E j \in LabelReqIds, c \in CaseIdInputs, d \in LabelDecisions : LabelCheck(j, c, d)
    \/ \E j \in LabelReqIds : LabelInsert(j)
    \/ \E j \in LabelReqIds : LabelUpdate(j)
    \/ \E j \in LabelReqIds : LabelCommit(j)
    \/ \E j \in LabelReqIds : LabelPublish(j)
    \/ \E j \in LabelReqIds : LabelStoreFail(j)
    \/ \E limit \in SuggestedLimits : SuggestedCasesRequest(limit)

\* label requests and listings of the suggested cases
SpecSuggested == InitSuggested /\ [][NextSuggested]_vars

\* ------------------------------------------------------------ train_model
\* what train_model returns for fraud_count and legit_count samples when the
\* model directory holds fs: the refusal names both counts and the minimum
TrainModelResult(fs, fraud_count, legit_count) ==
    IF fraud_count < MIN_SAMPLES_PER_CLASS \/ legit_count < MIN_SAMPLES_PER_CLASS
    THEN [trained |-> FALSE,
          error |-> [fraud |-> fraud_count, legit |-> legit_count,
                     need |-> MIN_SAMPLES_PER_CLASS]]
    ELSE [trained |-> TRUE, version |-> BumpVersion(GetModelVersion(fs))]

\* train_model(X, y): the check of the class counts, then fit, joblib.dump
\* and the metrics file
CallTrainModel(m) ==
    /\ call.fn = "train_model"
    /\ ~call.returned
    /\ LET r == TrainModelResult(files, call.args.fraud, call.args.legit)
       IN /\ call' = [call EXCEPT !.returned = TRUE, !.result = r]
          /\ IF r.trained
             THEN /\ files' = TrainSave(files, trainCount + 1, m)
                  /\ trainCount' = trainCount + 1
                  /\ everWritten' = everWritten \cup
                         {[kind |-> f.kind, ver |-> f.ver, content |-> f.content] :
                             f \in TrainSave(files, trainCount + 1, m) \ files}
             ELSE UNCHANGED <<files, trainCount, everWritten>>
    /\ UNCHANGED <<dbVars, sqlVars, caseReqVars, rt, clock, busVars, mlCache, lockVars,
                   timeVars, guardian, minerVars>>

\* class counts below, at and above the minimum
ClassCounts == {0, MIN_SAMPLES_PER_CLASS - 1, MIN_SAMPLES_PER_CLASS, 29, 30}

\* train_model is about to be called on a label set with the given class
\* counts; the model directory is empty or holds the bootstrap model
InitTrain ==
    /\ SeededDb("not_fraud", 0, BootstrapFiles)
    /\ lab = [j \in LabelReqIds |->
                 [pc |-> "done", case_id |-> RequestCase(j), decision |-> "not_fraud",
                  txn_id |-> RequestCase(j), labeled_at |-> 0]]
    /\ rt = InitTasks
    /\ \E fs \in {{}, BootstrapFiles} :
          /\ files = fs
          /\ everWritten = {[kind |-> f.kind, ver |-> f.ver, content |-> f.content] :
                               f \in fs}
    /\ trainCount = 0
    /\ mlCache = Unloaded
    /\ retrainHolder = NoTask
    /\ retrainWaiters = <<>>
    /\ now = DEBOUNCE_SECONDS
    /\ lastRetrainTime = 0
    /\ guardian = [GuardianIdle EXCEPT !.pc = "off"]
    /\ NoMining
    /\ \E fraud \in ClassCounts, legit \in ClassCounts :
          call = Call("train_model", [fraud |-> fraud, legit |-> legit])

NextTrain == \E m \in MetricInputs : CallTrainModel(m)

\* train_model applied to label sets of every size
SpecTrain == InitTrain /\ [][NextTrain]_vars


\* ======================================================= properties
Rejected == {"rejected404", "rejected400"}
ClosedIn(rows, c) == \E r \in rows : r.case_id = c /\ r.status = "closed"
Count(s, x) == Cardinality({n \in 1..Len(s) : s[n] = x})
\* every b in s has an a before it
Preceded(s, a, b) == \A n \in 1..Len(s) : s[n] = b => \E m \in 1..(n - 1) : s[m] = a
\* no b in s comes before an a
InOrder(s, a, b) == \A n, m \in 1..Len(s) : (s[n] = a /\ s[m] = b) => n < m

\* the tasks inside "async with _retrain_lock"
SectionPcs == {"rt_read", "rt_train", "rt_snap", "rt_snap_ins", "rt_publish"}
RetrainSections ==
    {p \in LockTasks : rt[p].pc \in SectionPcs}
        \cup (IF guardian.pc \in {"rt_read", "rt_train"} THEN {GuardianTask} ELSE {})
RetrainWaiting ==
    {p \in LockTasks : rt[p].pc = "waiting"}
        \cup (IF guardian.pc = "waiting" THEN {GuardianTask} ELSE {})

\* C1: at most one of the label-triggered, manual and Guardian retrains is
\* inside its retrain section; the one inside holds the retrain lock, and
\* every other acquirer is queued on the lock, outside its section.
AtMostOneRetrain ==
    /\ Cardinality(RetrainSections) <= 1
    /\ \A p \in RetrainSections : retrainHolder = p
    /\ \A p \in RetrainWaiting : InSeq(retrainWaiters, p) /\ p \notin RetrainSections
    /\ retrainWaiters # <<>> =>
          \/ retrainHolder # NoTask
          \/ Head(retrainWaiters) \in RetrainWaiting

RetrainContended ==
    /\ \E p \in RetrainSections : p[1] = "ar" /\ rt[p].pc = "rt_snap_ins"
    /\ GuardianTask \in RetrainWaiting
    /\ \E p \in RetrainWaiting : p[1] = "mr"

\* C2: whoever is about to run train_model (label-triggered, manual, Guardian
\* or ground-truth retrain, with enough rows of both classes) holds the
\* retrain lock.
TrainingHoldsLock ==
    /\ \A p \in TaskIds :
          (rt[p].pc \in {"rt_train", "gt_train"} /\ Trainable(rt[p].fraud, rt[p].legit))
             => retrainHolder = p
    /\ (guardian.pc = "rt_train" /\ Trainable(guardian.fraud, guardian.legit))
          => retrainHolder = GuardianTask

\* C3: a label request on a closed or missing case is rejected and changes
\* nothing: no label row, case rows unchanged, no case_labeled event, no
\* auto-retrain task; the rejected request does nothing afterwards.
RejectedLabelChangesNothing ==
    /\ [](\A j \in LabelReqIds : lab[j].pc \in Rejected =>
            /\ ~\E l \in dbLabel \cup pending.label : l.label_id = j
            /\ rt[<<"ar", j>>].pc = "none")
    /\ [][\A j \in LabelReqIds :
            /\ (lab[j].pc = "idle" /\ lab'[j].pc # "idle"
                  /\ (~CaseExists(lab'[j].case_id) \/ ClosedIn(dbCase, lab'[j].case_id)))
               => /\ lab'[j].pc \in Rejected
                  /\ UNCHANGED <<dbVars, pending, published, rt>>
            /\ lab[j].pc \in Rejected => lab'[j] = lab[j]]_vars

RejectedLabelReached ==
    /\ \E j \in LabelReqIds : lab[j].pc = "rejected400" /\ ClosedIn(dbCase, lab[j].case_id)
    /\ \E j \in LabelReqIds : lab[j].pc = "rejected404"

\* C4: under any interleaving of label requests no label row is added for a
\* case that is already closed, and no case holds two terminal labels.
NoLabelAfterClosed ==
    /\ [](\A l1, l2 \in dbLabel :
            (l1.case_id = l2.case_id /\ l1.decision \in TerminalDecisions
               /\ l2.decision \in TerminalDecisions) => l1 = l2)
    /\ [][\A l \in dbLabel' \ dbLabel : ~ClosedIn(dbCase, l.case_id)]_vars

\* C5: an accepted label sets the status closed iff fraud / not_fraud and
\* in_review iff needs_info, and a closed case never changes status again.
ClosedIsTerminal ==
    [][/\ \A j \in LabelReqIds :
            (lab[j].pc = "updated" /\ lab'[j].pc = "committed") =>
                \E r \in dbCase' : /\ r.case_id = lab[j].case_id
                                   /\ r.status = "closed" <=> lab[j].decision \in TerminalDecisions
                                   /\ r.status = "in_review" <=> lab[j].decision = "needs_info"
       /\ \A r \in dbCase : r.status = "closed" => ClosedIn(dbCase', r.case_id)]_vars

RiskRows(t) == {r \in dbRisk : r.txn_id = t}
CaseRows(t) == {c \in dbCase : c.txn_id = t}

\* C6: every persisted transaction has exactly one risk result, has a case iff
\* that result is flagged (decision review or block), never more than one
\* case, and a new case is open.
OneResultAndCaseIffFlagged ==
    /\ [](\A t \in dbTxn :
            /\ Cardinality(RiskRows(t.txn_id)) = 1
            /\ Cardinality(CaseRows(t.txn_id)) <= 1
            /\ \A r \in RiskRows(t.txn_id) :
                 /\ r.flagged <=> Decision(r.score) \in {"review", "block"}
                 /\ r.flagged <=> CaseRows(t.txn_id) # {})
    /\ [][\A c \in dbCase' : (~\E c0 \in dbCase : c0.case_id = c.case_id) => c.status = "open"]_vars

FlaggedAndUnflaggedPersisted ==
    /\ \E t \in dbTxn : \E r \in RiskRows(t.txn_id) : r.flagged /\ CaseRows(t.txn_id) # {}
    /\ \E t \in dbTxn : \E r \in RiskRows(t.txn_id) : ~r.flagged /\ CaseRows(t.txn_id) = {}

\* C7: a failed ingestion persists no transaction, risk-result or case row
\* and publishes no event.
IngestAllOrNothing ==
    \A i \in IngestIds : ing[i].pc = "failed" =>
        /\ ~\E t \in dbTxn \cup pending.txn : t.txn_id = i
        /\ ~\E r \in dbRisk \cup pending.risk : r.txn_id = i
        /\ ~\E c \in dbCase \cup pending.case : c.txn_id = i
        /\ published[i] = <<>>

FailedAfterInserts ==
    /\ \E i \in IngestIds : ing[i].pc = "failed" /\ ing[i].at = "case_ins"
    /\ \E i \in IngestIds : ing[i].pc = "failed" /\ ing[i].at = "idle"

\* C8: a successful ingestion publishes exactly one transaction event, after
\* the commit; case_created is published iff flagged and follows the
\* transaction event in every subscriber's stream; case_explained follows
\* case_created.
EventsFollowCommitInOrder ==
    \A i \in IngestIds :
        /\ published[i] # <<>> => \E t \in dbTxn : t.txn_id = i
        /\ Count(published[i], "transaction") <= 1
        /\ ing[i].pc = "done" =>
             /\ Count(published[i], "transaction") = 1
             /\ Count(published[i], "case_created") = (IF Flagged(ing[i].score) THEN 1 ELSE 0)
        /\ Preceded(published[i], "transaction", "case_created")
        /\ Preceded(published[i], "case_created", "case_explained")
        /\ \A k \in ClientIds :
             /\ Preceded(accepted[k][i], "transaction", "case_created")
             /\ InOrder(accepted[k][i], "case_created", "case_explained")

FullStreamAccepted ==
    \E k \in ClientIds, i \in IngestIds :
        /\ accepted[k][i] = <<"transaction", "case_created", "case_explained">>
        /\ \E i2 \in IngestIds : ing[i2].pc = "done" /\ ~Flagged(ing[i2].score)

\* C9: every model file and metrics file ever written is still in the model
\* directory with its original content, under its active name or under its
\* rolled-back name.
ArtifactsPreserved ==
    \A a \in everWritten :
        \E f \in files : f.kind = a.kind /\ f.ver = a.ver /\ f.content = a.content

\* the Guardian step that trains version V and rolls it back
IsRollbackStep ==
    /\ guardian.pc = "rt_train"
    /\ guardian'.pc = "outcome"
    /\ guardian'.eval = "ROLLBACK"

\* C10: one rollback of version V.  With at least two active model versions
\* it returns true, V's model and metrics files are gone from their active
\* names and present, with the same content, under the rolled-back names,
\* and the files of every other version are untouched; with one active
\* model version it returns false and the directory is unchanged.
RollbackRenamesBothOrNothing ==
    [][IsRollbackStep =>
         \E m \in MetricInputs :
            LET before == TrainSave(files, trainCount + 1, m)
                V == guardian'.new_version
                c == [run |-> trainCount + 1, f1 |-> m.f1, precision |-> m.precision]
            IN IF Cardinality({f.ver : f \in ActiveModels(before)}) >= 2
               THEN /\ guardian'.rolled_back
                    /\ ~\E f \in files' : f.ver = V /\ ~f.rolled
                    /\ \A kind \in {"model", "metrics"} :
                          [kind |-> kind, ver |-> V, rolled |-> TRUE, content |-> c] \in files'
                    /\ \A f \in before \cup files' :
                          f.ver # V => (f \in before /\ f \in files')
               ELSE /\ ~guardian'.rolled_back
                    /\ files' = before]_vars

RolledBackAndRefused ==
    /\ \E n \in 1..Len(dbDecision) : dbDecision[n].outcome = "rolled_back"
    /\ \E n \in 1..Len(dbDecision) : dbDecision[n].outcome = "kept_only_model"
    /\ \E f, g \in files : f.rolled /\ g.rolled /\ f.kind = "model" /\ g.kind = "metrics"

\* the (X, Y, Z) tuple as one number (every component is below 100)
TupleValue(v) == v[1] * 10000 + v[2] * 100 + v[3]

\* a create_transaction request has just been scored
IsScoringStep == \E i \in IngestIds : ing[i].pc = "idle" /\ ing'[i].pc = "scored"

RollbackRestoresGatheredVersion ==
    [][IsRollbackStep =>
          /\ ~\E f \in files' : f.ver = guardian'.new_version /\ ~f.rolled
          /\ \A kind \in {"model", "metrics"} :
                \E f \in files' : SameName(f, kind, guardian'.new_version, TRUE)
          /\ GetModelVersion(files') = guardian.old_version]_vars

\* C13: of all the steps of the Guardian, only the outcome step of a tick whose
\* evaluation is KEEP inserts a metric_snapshots row (for the version just
\* trained), and only the commit that follows it adds a row to the table:
\* the training call, a refusal and a ROLLBACK outcome write no snapshot.
GuardianSnapshotIffKeep ==
    [][guardian' # guardian =>
          /\ (pending'.snap # pending.snap /\ pending'.snap # {})
                <=> (guardian.pc = "outcome" /\ guardian'.pc = "outcome_ins"
                       /\ guardian.eval = "KEEP")
          /\ (pending'.snap # pending.snap /\ pending'.snap # {})
                => pending'.snap \ pending.snap \subseteq
                      {r \in pending'.snap : r.model_version = guardian.new_version}
          /\ dbSnap' # dbSnap
                <=> (guardian.pc = "outcome_ins" /\ guardian'.pc = "outcome_done"
                       /\ guardian.eval = "KEEP")]_vars

\* C13 witness: a tick has kept its model and the snapshot of that version is
\* committed, while no request has trained
KeptWithSnapshot ==
    /\ guardian.pc = "sleep"
    /\ trainCount = 1
    /\ \E n \in 1..Len(dbDecision) :
          /\ dbDecision[n].decision_type = "model_kept"
          /\ \E r \in dbSnap : r.model_version = dbDecision[n].model_version_after

\* C14: the deterministic rule answers every context with RETRAIN or SKIP,
\* by the first rule that applies: fewer than 20 labels in total: SKIP;
\* MIN_LABELS new labels: RETRAIN; drift above 0.05 with more than 50
\* transactions: RETRAIN; more than 200 transactions and more than 5 minutes:
\* RETRAIN; otherwise SKIP.
DecisionRuleInPriorityOrder ==
    (call.fn = "_deterministic_decision" /\ call.returned) =>
        LET c == call.args
            few == c.total_labels < 20
            labels == c.labels_since >= GUARDIAN_MIN_LABELS
            drift == c.driftNum > 5 * c.driftDen /\ c.txns_since_retrain > 50
            stale == c.txns_since_retrain > 200 /\ c.seconds_since_retrain > 300
        IN /\ call.result \in {"RETRAIN", "SKIP"}
           /\ few => call.result = "SKIP"
           /\ (~few /\ labels) => call.result = "RETRAIN"
           /\ (~few /\ ~labels /\ drift) => call.result = "RETRAIN"
           /\ (~few /\ ~labels /\ ~drift /\ stale) => call.result = "RETRAIN"
           /\ (~few /\ ~labels /\ ~drift /\ ~stale) => call.result = "SKIP"

\* C14 witness: enough new labels, but too few labels in total: SKIP
SkippedDespiteNewLabels ==
    /\ call.fn = "_deterministic_decision" /\ call.returned
    /\ call.args.total_labels = 19
    /\ call.args.labels_since = GUARDIAN_MIN_LABELS
    /\ call.result = "SKIP"

\* C15: the deterministic evaluation returns ROLLBACK exactly when
\* new_f1 < 0.9 * old_f1 or new_precision < 0.85 * old_precision, a missing
\* metric counting as 0, and KEEP otherwise.
EvalRollbackIffDecline ==
    (call.fn = "_deterministic_eval" /\ call.returned) =>
        LET a == call.args
            decline == \/ OrZero(a.new_f1) * 100 < 90 * OrZero(a.old_f1)
                       \/ OrZero(a.new_precision) * 100 < 85 * OrZero(a.old_precision)
        IN call.result = IF decline THEN "ROLLBACK" ELSE "KEEP"

\* the response has no line that starts with DECISION
NoDecisionLine(text) == \A n \in 1..Len(text) : text[n].key # "DECISION"

\* C16: on a non-empty response of the LLM without a DECISION line, the
\* tick's retrain decision is the one of the deterministic rule on the same
\* context, and its evaluation is the deterministic evaluation of the same
\* metrics.
UnparseableFallsBackToRules ==
    /\ (call.fn = "_guardian_tick.decision" /\ call.returned
          /\ call.args.text # NoResponse /\ NoDecisionLine(call.args.text))
          => call.result = DeterministicDecision(call.args.ctx)
    /\ (call.fn = "_guardian_tick.eval" /\ call.returned
          /\ call.args.text # NoResponse /\ NoDecisionLine(call.args.text))
          => call.result = DeterministicEval(call.args.old_f1, call.args.old_precision,
                                             call.args.new_f1, call.args.new_precision)

StartTypes == {"retrain_skipped", "retrain_triggered"}
OutcomeTypes == {"model_kept", "model_rolled_back"}

\* an outcome row directly follows the retrain_triggered row of its tick
OutcomeFollowsTrigger(d) ==
    \A n \in 1..Len(d) :
        d[n].decision_type \in OutcomeTypes
            => n > 1 /\ d[n - 1].decision_type = "retrain_triggered"

\* the tick returns without an exception
TickCompletes ==
    guardian.pc # "sleep" /\ guardian'.pc = "sleep" /\ guardian'.failures = 0

\* C17: a tick that completes has appended one retrain_skipped or
\* retrain_triggered row, and after it at most one model_kept or
\* model_rolled_back row, only after retrain_triggered and a training that
\* saved a model; no outcome row is ever appended elsewhere; the steps of a
\* SKIP tick leave the model directory, the retrain lock and the event
\* streams as they are and start no training.
TickLogsOneDecision ==
    [][/\ OutcomeFollowsTrigger(dbDecision')
       /\ TickCompletes =>
             LET rows == SubSeq(dbDecision', guardian.log_start + 1, Len(dbDecision'))
             IN /\ Len(rows) \in {1, 2}
                /\ rows[1].decision_type \in StartTypes
                /\ rows[1].decision_type = "retrain_skipped" <=> guardian.decision = "SKIP"
                /\ Len(rows) = 2 =>
                      /\ rows[1].decision_type = "retrain_triggered"
                      /\ rows[2].decision_type \in OutcomeTypes
                      /\ guardian.new_version # Missing
       /\ (guardian' # guardian /\ guardian'.decision = "SKIP") =>
             /\ files' = files /\ trainCount' = trainCount
             /\ published' = published /\ queue' = queue
             /\ retrainHolder' = retrainHolder /\ retrainWaiters' = retrainWaiters
             /\ guardian'.pc \in {"log", "log_ins", "log_done", "sleep"}]_vars

\* C17 witness: one tick has skipped and another has retrained and kept
SkippedAndKeptTicks ==
    /\ guardian.pc = "sleep" /\ guardian.failures = 0
    /\ \E n \in 1..Len(dbDecision) : dbDecision[n].decision_type = "retrain_skipped"
    /\ \E n \in 1..Len(dbDecision) : dbDecision[n].decision_type = "model_kept"

\* the last n ticks all raised an exception
LastTicksFailed(results, n) ==
    /\ Len(results) >= n
    /\ \A k \in (Len(results) - n + 1)..Len(results) : results[k] = "failed"

\* the tick raises an exception
TickFails ==
    guardian.pc # "sleep" /\ guardian'.pc = "sleep" /\ ~TickCompletes

\* C18: after a tick the loop sleeps 300 s iff the last three ticks all
\* failed, and CHECK_INTERVAL otherwise; a failing tick adds exactly one to
\* the failure counter and a completing tick resets it to 0.
BackoffAfterThreeFailures ==
    [][(guardian.pc # "sleep" /\ guardian'.pc = "sleep") =>
          /\ guardian'.interval =
                IF LastTicksFailed(guardian'.results, 3) THEN 300
                ELSE GUARDIAN_CHECK_INTERVAL
          /\ guardian'.results[Len(guardian'.results)] = "failed"
                => guardian'.failures = guardian.failures + 1
          /\ guardian'.results[Len(guardian'.results)] = "ok"
                => guardian'.failures = 0]_vars

\* C18 witness: three failures in a row, the 300 s wait, then a tick that
\* completes and the normal interval again
BackedOffAndRecovered ==
    /\ guardian.results = <<"failed", "failed", "failed", "ok">>
    /\ guardian.pc = "sleep"
    /\ guardian.failures = 0
    /\ guardian.interval = GUARDIAN_CHECK_INTERVAL

\* the label-triggered retrains that have entered _do_retrain
StartedAuto == {p \in TaskIds : p[1] = "ar" /\ rt[p].started # None}

\* C19: any two label-triggered auto-retrains start at least DEBOUNCE_SECONDS
\* apart, also when the later label arrives while the earlier auto-retrain is
\* still waiting for the lock or running
AutoRetrainsDebounced ==
    \A p, q \in StartedAuto :
        p # q /\ rt[p].started <= rt[q].started
            => rt[q].started - rt[p].started >= DEBOUNCE_SECONDS

\* C20: training is refused whenever either class has fewer than 30 samples
\* and succeeds with 30 in each; a refusal returns trained = false with an
\* error naming the class counts, writes no file and leaves the version
TrainingNeedsThirtyPerClass ==
    [][call.fn = "train_model" /\ ~call.returned /\ call'.returned =>
          IF call.args.fraud < 30 \/ call.args.legit < 30
          THEN /\ ~call'.result.trained
               /\ call'.result.error.fraud = call.args.fraud
               /\ call'.result.error.legit = call.args.legit
               /\ files' = files
               /\ GetModelVersion(files') = GetModelVersion(files)
          ELSE call'.result.trained]_vars

\* C21: the decision of every risk result agrees with the score it reports
\* (in units of 0.0001): block iff score >= 0.80, review iff 0.50 <= score <
\* 0.80, approve iff score < 0.50; and the reported score lies in [0, 1]
DecisionMatchesReportedScore ==
    call.fn = "score_transaction" /\ call.returned =>
        /\ call.result.score >= 0 /\ call.result.score <= 10000
        /\ call.result.decision = "block" <=> call.result.score >= BLOCK_THRESHOLD * 100
        /\ call.result.decision = "review" <=>
               /\ call.result.score >= REVIEW_THRESHOLD * 100
               /\ call.result.score < BLOCK_THRESHOLD * 100
        /\ call.result.decision = "approve" <=> call.result.score < REVIEW_THRESHOLD * 100

\* create_transaction request i runs its velocity reads while no other
\* request is between its reads and its commit
SequentialScore(i) ==
    /\ ing[i].pc = "idle" /\ ing'[i].pc = "scored"
    /\ \A j \in IngestIds \ {i} : ing[j].pc \in {"idle", "done", "failed"}

\* C22: the raw 1h count used to score the k-th sequentially ingested
\* transaction of a sender is at least k (k - 1 transactions of the sender
\* are stored when it is scored)
VelocityCountsOwnTransaction ==
    [][\A i \in IngestIds :
          SequentialScore(i) =>
              ing'[i].count_1h >=
                  Cardinality({t \in dbTxn : SenderOf(t.txn_id) = SenderOf(i)}) + 1]_vars

\* the txn_type values and the amounts the specification admits
ListedTransaction(txn) ==
    /\ txn.txn_type.name \in {"transfer", "deposit", "withdrawal", "payment"}
    /\ txn.amount.kind = "finite"
    /\ txn.amount.value >= 0

\* C23: a transaction whose type is not transfer, deposit, withdrawal or
\* payment, or whose amount is non-finite or negative, is rejected at
\* ingress: no transaction, risk-result or case row is persisted or pending
\* for it and no event is published for it
UnlistedTransactionRejected ==
    \A i \in IngestIds :
        ~ListedTransaction(ing[i].txn) =>
            /\ ing[i].pc \in {"idle", "rejected"}
            /\ \A t \in dbTxn \cup pending.txn : t.txn_id # i
            /\ \A r \in dbRisk \cup pending.risk : r.txn_id # i
            /\ \A c \in dbCase \cup pending.case : c.txn_id # i
            /\ published[i] = <<>>

\* two cards have the same dedup key when rule type is part of it
SameKey(c, d) == c.member_ids = d.member_ids /\ c.rule_type = d.rule_type

\* C24: a newly mined card is discarded iff an active card, or an earlier
\* card of the same run, has the same member_ids and the same rule type; a
\* cycle and a dense_subgraph over the same members are both kept
CardKeptIffNewKey ==
    [][\A r \in MineIds :
          mine[r].pc = "existing" /\ mine'[r].pc = "insert" =>
              \A n \in 1..Len(mine[r].patterns) :
                  (\E k \in 1..Len(mine'[r].todo) : mine'[r].todo[k].pattern_id = <<r, n>>)
                      <=> /\ \A c \in ActiveCards : ~SameKey(c, mine[r].patterns[n])
                          /\ \A m \in 1..(n - 1) :
                                 ~SameKey(mine[r].patterns[m], mine[r].patterns[n])]_vars

\* C25: no two active pattern cards have the same structural signature,
\* also when the periodic miner and a manual run interleave
NoDuplicateSignatures ==
    \A c, d \in ActiveCards :
        c # d => ExistingSignature(c) # ExistingSignature(d)

\* the executions between their first store read and their final commit
MiningInProgress == {r \in MineIds : mine[r].pc \in {"fetch", "existing", "insert"}}

\* C26: two executions of the mining job never overlap
MiningRunsDoNotOverlap == Cardinality(MiningInProgress) <= 1

\* C27: a mining run that starts after another run over the same
\* transactions has finished inserts no card and leaves the set of active
\* signatures as it was
SecondRunInsertsNothing ==
    [][\A r \in MineIds :
          mine[r].after # {} /\ mine[r].pc = "insert" /\ mine'[r].pc = "committed" =>
              /\ mine'[r].inserted = {}
              /\ {ExistingSignature(c) : c \in ActiveCards}'
                    = {ExistingSignature(c) : c \in ActiveCards}]_vars

\* a second run has finished after a first one stored what both mined
SecondRunDone ==
    \E r \in MineIds :
        /\ mine[r].pc = "done" /\ mine[r].after # {}
        /\ mine[r].patterns # <<>> /\ mine[r].inserted = {}
        /\ ActiveCards # {}

\* C28: mining one 3-cycle A -> B -> C -> A on an empty store returns exactly
\* one card and leaves exactly one active card, of rule type cycle, with
\* member_ids [A, B, C] and confidence in [0.4, 0.95]; fewer than three
\* transactions give no card
ThreeCycleYieldsOneCycleCard ==
    \A r \in MineIds :
        mine[r].pc = "done" /\ (\A q \in MineIds \ {r} : mine[q].pc = "idle") =>
            /\ dbTxn = ThreeCycle =>
                   /\ Len(mine[r].patterns) = 1
                   /\ Cardinality(ActiveCards) = 1
                   /\ \A c \in ActiveCards :
                          /\ c.rule_type = "cycle"
                          /\ c.member_ids = {"A", "B", "C"}
                          /\ c.confidence >= 40 /\ c.confidence <= 95
            /\ Cardinality(dbTxn) < 3 => mine[r].patterns = <<>>

\* C29: never more than 50 subscribers are registered, and a subscribe attempt
\* made while 50 are registered is answered 503 and registers nothing
SubscriberCapHolds ==
    /\ [](Len(subscribers) <= MAX_SUBSCRIBERS)
    /\ [][call' # call /\ call'.fn = "stream_events"
             /\ Len(subscribers) = MAX_SUBSCRIBERS =>
                 call'.status = 503 /\ subscribers' = subscribers]_vars

\* a client was turned away while 50 subscribers were registered
SubscribeRejectedAtCap ==
    /\ call.fn = "stream_events" /\ call.status = 503
    /\ Len(subscribers) = MAX_SUBSCRIBERS

\* C30: no queue holds more than 100 events, and a publish call appends the
\* event to the queue of every subscriber with room and leaves the full
\* queues as they are
PublishDropsOnlyForFullQueues ==
    /\ [](\A k \in DOMAIN queue : Len(queue[k]) <= QUEUE_MAXSIZE)
    /\ [][published' # published =>
             \E e \in BusEvents :
                /\ published' = Log(published, e)
                /\ \A n \in 1..Len(subscribers) :
                      LET k == subscribers[n]
                      IN queue'[k] = IF Len(queue[k]) < QUEUE_MAXSIZE
                                     THEN Append(queue[k], e)
                                     ELSE queue[k]]_vars

\* an event was dropped for a subscriber with a full queue and received by
\* another subscriber
DroppedForOneReceivedByAnother ==
    \E n, m \in 1..Len(subscribers) :
        LET k == subscribers[n]
            j == subscribers[m]
        IN /\ Len(queue[k]) = QUEUE_MAXSIZE
           /\ Len(accepted[k][0]) = QUEUE_MAXSIZE
           /\ Len(published[0]) = QUEUE_MAXSIZE + 1
           /\ Len(accepted[j][0]) = 2
           /\ queue[j] # <<>>

RECURSIVE IsSubsequence(_, _)
\* s can be obtained from t by removing elements
IsSubsequence(s, t) ==
    IF s = <<>> THEN TRUE
    ELSE IF t = <<>> THEN FALSE
    ELSE IF Head(s) = Head(t) THEN IsSubsequence(Tail(s), Tail(t))
    ELSE IsSubsequence(s, Tail(t))

FirstOf(s, n) == SubSeq(s, 1, IF Len(s) < n THEN Len(s) ELSE n)

\* C31: what a subscriber is delivered, followed by what waits in its queue,
\* is a subsequence of the events published while it was registered, in
\* publication order; a publish leaves out of a queue only what does not fit
DeliveredInPublicationOrder ==
    /\ [](\A k \in DOMAIN stream :
            IsSubsequence(stream[k].delivered \o queue[k], stream[k].offered))
    /\ [][\A k \in DOMAIN stream :
            Len(stream'[k].offered) > Len(stream[k].offered) =>
                /\ stream'[k].delivered = stream[k].delivered
                /\ queue'[k] =
                      FirstOf(queue[k] \o SubSeq(stream'[k].offered,
                                                 Len(stream[k].offered) + 1,
                                                 Len(stream'[k].offered)),
                              QueueMaxsize)]_vars

\* a subscriber has been delivered two events and has lost one to overflow
DeliveredAfterOverflow ==
    \E k \in DOMAIN stream :
        /\ Len(stream[k].delivered) >= 2
        /\ Len(stream[k].offered) > Len(stream[k].delivered) + Len(queue[k])

\* C32: the subscription of a consumer that has closed is removed: while its
\* queue is still registered, the step that removes it is still to come
ClosedConsumerRemoved ==
    \A k \in DOMAIN stream :
        stream[k].pc = "closed" /\ InSeq(subscribers, k) => ENABLED Unsubscribe(k)

\* C33: for every transaction and context the training feature function
\* gives every feature the value the scoring feature function gives it, and
\* the vector trained on is the vector recorded at scoring
TrainingMatchesScoring ==
    call.fn = "compute_features" /\ call.returned =>
        /\ call.result.training = call.result.scoring
        /\ call.result.trained_on = call.result.scoring

\* every listing holds open and in_review cases only, in order of
\* non-decreasing uncertainty, as many as the limit allows
ListingWellFormed ==
    [][call' # call /\ call'.fn = "suggested_cases" =>
         LET l == call'.result
             live == {c \in dbCase : c.status \in {"open", "in_review"}}
         IN /\ \A n \in 1..Len(l) : l[n].status \in {"open", "in_review"}
            /\ \A n \in 1..(Len(l) - 1) : l[n].uncertainty <= l[n + 1].uncertainty
            /\ Len(l) = Min(call'.limit, Cardinality(live))]_vars

\* C34: a listing of the suggested cases holds open and in_review cases
\* only, ordered by non-decreasing |risk_score - 0.5| and cut at the limit,
\* and never a case that a fraud / not_fraud label has closed
SuggestedListsOnlyLiveCases ==
    [][call' # call /\ call'.fn = "suggested_cases" =>
         LET l == call'.result
             live == {c \in dbCase : c.status \in {"open", "in_review"}}
         IN /\ \A n \in 1..Len(l) : l[n].status \in {"open", "in_review"}
            /\ \A n \in 1..(Len(l) - 1) : l[n].uncertainty <= l[n + 1].uncertainty
            /\ Len(l) = Min(call'.limit, Cardinality(live))
            /\ \A n \in 1..Len(l) :
                  ~\E lb \in dbLabel : /\ lb.case_id = l[n].case_id
                                       /\ lb.decision \in TerminalDecisions]_vars


\* the reference: the number of a sender's transactions inside the window
\* of window_minutes that begins at start, and its maximum over all the
\* starts from which a window can reach a transaction
InWindow(own, start) ==
    Cardinality({t \in own : start <= t.timestamp /\ t.timestamp <= start + WINDOW_MINUTES})

BruteForceMax(txns, sender) ==
    LET own == {t \in txns : t.sender_id = sender}
        last == CHOOSE m \in {t.timestamp : t \in own} : \A t \in own : t.timestamp <= m
        starts == (0 - WINDOW_MINUTES)..last
    IN IF own = {} THEN 0
       ELSE InWindow(own, CHOOSE w \in starts :
                              \A v \in starts : InWindow(own, v) <= InWindow(own, w))

VelocityReturned == call.fn = "detect_velocity_clusters" /\ call.returned

HasVelocityCard(sender) ==
    \E n \in DOMAIN call.result : call.result[n].sender = sender

\* C35 as stated: a sender has a velocity card if and only if one window of
\* 60 minutes holds at least five of its transactions, and the card's
\* max_count_in_window is the brute-force maximum
VelocityCardIffBurst ==
    VelocityReturned =>
        /\ \A s \in {t.sender_id : t \in call.args} :
               HasVelocityCard(s) <=> BruteForceMax(call.args, s) >= VELOCITY_THRESHOLD
        /\ \A n \in DOMAIN call.result :
               call.result[n].max_count_in_window
                   = BruteForceMax(call.args, call.result[n].sender)

\* C35, amended: every velocity card is for a sender with at least five
\* transactions in one window of 60 minutes and reports the brute-force
\* maximum; there are at most five cards, in order of non-increasing
\* confidence, and a sender with such a window has no card only when five
\* cards of at least its confidence were kept
VelocityCardsAreTopBursts ==
    VelocityReturned =>
        /\ Len(call.result) <= 5
        /\ \A n \in DOMAIN call.result :
               /\ call.result[n].max_count_in_window
                      = BruteForceMax(call.args, call.result[n].sender)
               /\ call.result[n].max_count_in_window >= VELOCITY_THRESHOLD
               /\ call.result[n].confidence
                      = VelocityConfidence(call.result[n].max_count_in_window)
        /\ \A n \in 1..(Len(call.result) - 1) :
               call.result[n].confidence >= call.result[n + 1].confidence
        /\ \A m, n \in DOMAIN call.result :
               call.result[m].sender = call.result[n].sender => m = n
        /\ \A s \in {t.sender_id : t \in call.args} :
               BruteForceMax(call.args, s) >= VELOCITY_THRESHOLD /\ ~HasVelocityCard(s) =>
                   /\ Len(call.result) = 5
                   /\ \A n \in DOMAIN call.result :
                          call.result[n].confidence
                              >= VelocityConfidence(BruteForceMax(call.args, s))

\* six senders with a burst each: five cards, and the sender with the
\* smallest burst has none
BurstWithoutCard ==
    /\ VelocityReturned
    /\ \E s \in {t.sender_id : t \in call.args} :
           /\ BruteForceMax(call.args, s) >= VELOCITY_THRESHOLD
           /\ ~HasVelocityCard(s)
           /\ \A n \in DOMAIN call.result :
                  call.result[n].max_count_in_window > BruteForceMax(call.args, s)


\* C36: the pattern events a mining run publishes are as many as the cards
\* the run inserted; a run that found every mined pattern among the active
\* cards publishes none
PatternEventsOnlyForNewCards ==
    [][\A r \in MineIds :
          mine[r].pc = "committed" /\ mine'[r].pc = "done" =>
              Len(published'[0]) - Len(published[0]) = Cardinality(mine[r].inserted)]_vars


\* the hub of a hub card: the account whose receivers (hub_out) or senders
\* (hub_in) are the other members of the card
IsHubAccount(entity) ==
    \E c \in CardsOf(entity) :
        \/ c.rule_type = "hub_out" /\ c.member_ids = {entity} \cup Receivers(dbTxn, entity)
        \/ c.rule_type = "hub_in" /\ c.member_ids = {entity} \cup Senders(dbTxn, entity)

\* C37: sender_is_hub and receiver_is_hub are greater than 0 only for the
\* hub account of an active hub_out or hub_in card; a counterparty listed in
\* the member_ids of a hub card gets 0
HubFeatureOnlyForHub ==
    [][call' # call /\ call'.fn = "compute_pattern_features" =>
          /\ call'.result.sender_is_hub > 0 => IsHubAccount(call'.sender_id)
          /\ call'.result.receiver_is_hub > 0 => IsHubAccount(call'.receiver_id)]_vars


\* C38: the version a successful training run saves its model under is
\* greater than the version of every artifact written before it, the
\* rolled-back ones included
VersionTagsNeverReused ==
    [][trainCount' # trainCount =>
          \A a \in everWritten' :
              a.content.run = trainCount' =>
                  \A b \in everWritten : VersionLess(b.ver, a.ver)]_vars


\* the lock is held by a task inside its retrain, and the queue of the lock
\* holds the tasks that wait in acquire() and no other
LockHeldOnlyInRetrain ==
    /\ retrainHolder # NoTask => retrainHolder \in RetrainSections
    /\ \A n \in 1..Len(retrainWaiters) : retrainWaiters[n] \in RetrainWaiting
    /\ \A p \in RetrainWaiting : InSeq(retrainWaiters, p)

NoLoopOnRejectedModel ==
    (/\ guardian.pc = "sleep"
     /\ guardian.eval = "ROLLBACK"
     /\ guardian.results # <<>>
     /\ guardian.results[Len(guardian.results)] = "ok") =>
        DeterministicDecision(GatherContext) = "SKIP"

====
